---- MODULE Spec2Model ----
(***************************************************************************)
(* Model of the vectorized distribution drivers of extraDistr (d*, p*, q*, *)
(* r* for each family) and of the point kernels they call.                 *)
(*                                                                         *)
(* A call is the state: the R-level call (driver name, argument vectors,   *)
(* flags) is fixed by Init, and one action per driver executes it and      *)
(* stores the returned vector, the number of Rcpp::warning calls made and  *)
(* whether an element was read past the end of a vector.  cpp_pgpois is    *)
(* also modelled element by element, with its memo of tables and its       *)
(* polls for a user interrupt.                                             *)
(*                                                                         *)
(* Doubles are records: exact rationals n/d, the sentinels NA_REAL, NAN,   *)
(* +Inf, -Inf, and terms f(a1..ak) for the results of the closed-form      *)
(* formulas and of the R math library (pow, exp, log, dbeta, ...), which   *)
(* are kept symbolic.                                                      *)
(***************************************************************************)
EXTENDS Integers, Naturals, Sequences, FiniteSets, TLC

VARIABLES
  fn,          \* the driver called
  x,           \* its first vector argument (x of d* and p*, p of q*)
  par,         \* its parameter vectors (or matrices), in the order of the signature
  n,           \* the number of variates asked of an r* driver
  lower_tail,
  log_prob,
  draws,       \* the uniform draws the call consumed, one per element
  out,         \* the vector returned
  warnings,    \* the number of Rcpp::warning calls the call made
  oob,         \* whether the call read an element past the end of a vector
  pc,          \* "call" before the driver runs, "done" after it returned
  idx,         \* the loop index i of a driver run element by element
  memo,        \* cpp_pgpois's map from index pairs to tables
  acc,         \* the vector p the loop fills
  since,       \* the elements processed since the last poll for an interrupt
  interrupt,   \* whether a user interrupt is pending
  built,       \* the index pairs cdf_gpois_table was called for, in order
  last         \* the last table read: <<index, length of the table>>

\* The state of a loop run element by element.
loopvars == <<idx, memo, acc, since, interrupt, built, last>>

vars == <<fn, x, par, n, lower_tail, log_prob, draws, out, warnings, oob, pc,
          idx, memo, acc, since, interrupt, built, last>>

\* Longest argument vector drawn.
MaxLen == 2
\* Largest number of variates asked of an r* driver.
MaxN == 3

(***************************************************************************)
(* Doubles                                                                 *)
(***************************************************************************)
Val(k, nn, dd, f, a) == [k |-> k, n |-> nn, d |-> dd, f |-> f, a |-> a]

NA_REAL  == Val("NA", 0, 1, "", <<>>)
NAN      == Val("NaN", 0, 1, "", <<>>)
R_PosInf == Val("Inf", 0, 1, "", <<>>)
R_NegInf == Val("-Inf", 0, 1, "", <<>>)

Abs(i) == IF i < 0 THEN -i ELSE i

RECURSIVE Gcd(_, _)
Gcd(a, b) == IF b = 0 THEN a ELSE Gcd(b, a % b)

\* The rational nn/dd (dd > 0) in lowest terms.
Num(nn, dd) ==
  LET g == Gcd(Abs(nn), dd)
  IN  Val("num", nn \div g, dd \div g, "", <<>>)

Zero == Num(0, 1)
One  == Num(1, 1)
Half == Num(1, 2)

\* A symbolic result f(a[1], ..., a[k]).
Term(f, a) == Val("term", 0, 1, f, a)

ISNAN(v) == v.k \in {"NA", "NaN"}

R_FINITE(v) == v.k \in {"num", "term"}

\* A symbolic value known to lie strictly between 0 and 1: exp of a negative
\* number, the complement of such a value, a positive power of one.
RECURSIVE Unit(_)
Unit(v) ==
  /\ v.k = "term"
  /\ CASE v.f = "exp" -> v.a[1].k = "num" /\ v.a[1].n < 0
       [] v.f = "1-" -> Unit(v.a[1])
       [] v.f = "pow" ->
            /\ v.a[2].k = "num" /\ v.a[2].n > 0
            /\ \/ Unit(v.a[1])
               \/ v.a[1].k = "num" /\ 0 < v.a[1].n /\ v.a[1].n < v.a[1].d
       [] OTHER -> FALSE

\* a < b on doubles: false as soon as one side is not a number.
Lt(a, b) ==
  CASE ISNAN(a) \/ ISNAN(b) -> FALSE
    [] a.k = "term" /\ b.k = "num" /\ Unit(a) -> b.n >= b.d
    [] a.k = "num" /\ b.k = "term" /\ Unit(b) -> a.n <= 0
    [] a.k = "num" /\ b.k = "num" -> a.n * b.d < b.n * a.d
    [] a.k = "-Inf" /\ b.k \in {"num", "Inf"} -> TRUE
    [] a.k = "num" /\ b.k = "Inf" -> TRUE
    [] a.k = "num" /\ b.k = "-Inf" -> FALSE
    [] a.k = "Inf" /\ b.k \in {"num", "Inf", "-Inf"} -> FALSE
    [] a.k = "-Inf" /\ b.k = "-Inf" -> FALSE

Gt(a, b) == Lt(b, a)

Le(a, b) == ~ISNAN(a) /\ ~ISNAN(b) /\ ~Lt(b, a)

Ge(a, b) == Le(b, a)

\* The sum of doubles of which at least one is NaN: the first NaN operand
\* (its payload, NA or NaN, is the one the addition returns).
RECURSIVE NaNSum(_)
NaNSum(s) == IF ISNAN(Head(s)) THEN Head(s) ELSE NaNSum(Tail(s))

Add(a, b) ==
  CASE ISNAN(a) \/ ISNAN(b) -> NaNSum(<<a, b>>)
    [] a.k = "num" /\ b.k = "num" -> Num(a.n * b.d + b.n * a.d, a.d * b.d)

Sub(a, b) ==
  CASE ISNAN(a) \/ ISNAN(b) -> NaNSum(<<a, b>>)
    [] a.k = "num" /\ b.k = "num" -> Num(a.n * b.d - b.n * a.d, a.d * b.d)

Mul(a, b) ==
  CASE ISNAN(a) \/ ISNAN(b) -> NaNSum(<<a, b>>)
    [] a.k = "num" /\ b.k = "num" -> Num(a.n * b.n, a.d * b.d)
    [] a.k = "num" /\ b.k = "term" -> IF a = One THEN b ELSE Term("*", <<a, b>>)
    [] a.k = "num" /\ a.n > 0 /\ b.k \in {"Inf", "-Inf"} -> b
    [] a.k = "num" /\ a.n < 0 /\ b.k = "Inf" -> R_NegInf
    [] a.k = "num" /\ a.n < 0 /\ b.k = "-Inf" -> R_PosInf
    [] a.k = "num" /\ a.n = 0 /\ b.k \in {"Inf", "-Inf"} -> NAN

Div(a, b) ==
  CASE ISNAN(a) \/ ISNAN(b) -> NaNSum(<<a, b>>)
    [] a.k = "num" /\ b.k = "num" /\ b.n = 0 /\ a.n = 0 -> NAN
    [] a.k = "num" /\ b.k = "num" /\ b.n = 0 /\ a.n > 0 -> R_PosInf
    [] a.k = "num" /\ b.k = "num" /\ b.n = 0 /\ a.n < 0 -> R_NegInf
    [] a.k = "num" /\ b.k = "num" /\ b.n > 0 -> Num(a.n * b.d, a.d * b.n)
    [] a.k = "num" /\ b.k = "num" /\ b.n < 0 -> Num(-(a.n * b.d), a.d * (-b.n))

\* 1.0 - v
OneMinus(v) ==
  CASE ISNAN(v) -> v
    [] v.k = "num" -> Num(v.d - v.n, v.d)
    [] v.k = "Inf" -> R_NegInf
    [] v.k = "-Inf" -> R_PosInf
    [] v.k = "term" /\ v.f = "1-" -> v.a[1]
    [] v.k = "term" /\ v.f # "1-" -> Term("1-", <<v>>)

\* log(v)
Log(v) ==
  CASE ISNAN(v) -> v
    [] v.k = "num" /\ v.n < 0 -> NAN
    [] v.k = "num" /\ v.n = 0 -> R_NegInf
    [] v.k = "num" /\ v = One -> Zero
    [] v.k = "num" /\ v.n > 0 /\ v # One -> Term("log", <<v>>)
    [] v.k = "Inf" -> R_PosInf
    [] v.k = "-Inf" -> NAN
    [] v.k = "term" /\ v.f = "exp" -> v.a[1]
    [] v.k = "term" /\ v.f # "exp" -> Term("log", <<v>>)

\* exp(v)
Exp(v) ==
  CASE ISNAN(v) -> v
    [] v.k = "num" /\ v = Zero -> One
    [] v.k = "num" /\ v # Zero -> Term("exp", <<v>>)
    [] v.k = "Inf" -> R_PosInf
    [] v.k = "-Inf" -> Zero
    [] v.k = "term" /\ v.f = "log" -> v.a[1]
    [] v.k = "term" /\ v.f # "log" -> Term("exp", <<v>>)

\* b to the power e, on the naturals.
RECURSIVE IPow(_, _)
IPow(b, e) == IF e = 0 THEN 1 ELSE b * IPow(b, e - 1)

\* The natural m-th roots of nn: one element when nn is a perfect m-th power.
IRoots(nn, m) ==
  IF m = 1 THEN {nn} ELSE {r \in 0..nn : r * r <= nn /\ IPow(r, m) = nn}

\* pow(v, e) for a base v >= 0 and an exponent e >= 0: exact when the result
\* is rational, symbolic otherwise; a power of a power is the power by the
\* product of the exponents.
Pow(v, e) ==
  CASE v.k = "num" /\ e.k = "num" /\ e.n = 0 -> One
    [] v.k = "num" /\ v.n >= 0 /\ e.k = "num" /\ e.n > 0 ->
         LET rn == IRoots(v.n, e.d)
             rd == IRoots(v.d, e.d)
         IN  IF rn # {} /\ rd # {}
             THEN Num(IPow(CHOOSE r \in rn : TRUE, e.n), IPow(CHOOSE r \in rd : TRUE, e.n))
             ELSE Term("pow", <<v, e>>)
    [] v.k = "term" /\ v.f = "pow" /\ e.k = "num" /\ e.n > 0 ->
         IF Mul(v.a[2], e) = One THEN v.a[1]
         ELSE Term("pow", <<v.a[1], Mul(v.a[2], e)>>)
    [] v.k = "term" /\ v.f # "pow" /\ e.k = "num" /\ e.n > 0 ->
         IF e = One THEN v ELSE Term("pow", <<v, e>>)

\* sqrt(v) for v >= 0.
Sqrt(v) ==
  CASE v.k = "num" /\ v.n >= 0 -> Pow(v, Half)
    [] v.k = "Inf" -> R_PosInf
    [] v.k = "term" -> Term("sqrt", <<v>>)

(***************************************************************************)
(* Vectors: C++ indexes from 0, sequences from 1.                          *)
(***************************************************************************)
At(v, i) == v[i + 1]

Map1(F(_), v) == [i \in 1..Len(v) |-> F(v[i])]

RECURSIVE MaxOf(_)
MaxOf(s) ==
  IF Len(s) = 1 THEN s[1]
  ELSE LET m == MaxOf(Tail(s)) IN IF s[1] >= m THEN s[1] ELSE m

\* What a driver returns: the vector, the Rcpp::warning calls, out-of-bounds reads.
Result(o, w, b) == [out |-> o, warnings |-> w, oob |-> b]

\* What a kernel does: the value it returns, whether it sets the caller's
\* throw_warning flag, and the Rcpp::warning calls it makes itself.
KR(v, w) == [v |-> v, w |-> w, d |-> 0]

KW(v, dd) == [v |-> v, w |-> FALSE, d |-> dd]

Values(r) == [i \in 1..Len(r) |-> r[i].v]

RECURSIVE Direct(_)
Direct(r) == IF r = <<>> THEN 0 ELSE Head(r).d + Direct(Tail(r))

\* The warnings of a call whose kernels returned r: the aggregate one raised
\* after the loop when throw_warning was set, and the kernels' own.
Warnings(r) == (IF \E i \in 1..Len(r) : r[i].w THEN 1 ELSE 0) + Direct(r)

VALID_PROB(p) == Ge(p, Zero) /\ Le(p, One)

(***************************************************************************)
(* Kumaraswamy                                                             *)
(***************************************************************************)
pdf_kumar(xx, a, b) ==
  IF ISNAN(xx) \/ ISNAN(a) \/ ISNAN(b) THEN KR(NaNSum(<<xx, a, b>>), FALSE)
  ELSE IF Le(a, Zero) \/ Le(b, Zero) THEN KR(NAN, TRUE)
  ELSE IF Lt(xx, Zero) \/ Gt(xx, One) THEN KR(Zero, FALSE)
  ELSE KR(Term("pdf_kumar", <<xx, a, b>>), FALSE)

cdf_kumar(xx, a, b) ==
  IF ISNAN(xx) \/ ISNAN(a) \/ ISNAN(b) THEN KR(NaNSum(<<xx, a, b>>), FALSE)
  ELSE IF Le(a, Zero) \/ Le(b, Zero) THEN KR(NAN, TRUE)
  ELSE IF Lt(xx, Zero) THEN KR(Zero, FALSE)
  ELSE IF Ge(xx, One) THEN KR(One, FALSE)
  ELSE KR(OneMinus(Pow(OneMinus(Pow(xx, a)), b)), FALSE)

\* invcdf_kumar by the formula 1-(1-p^{1/b})^{1/a}.
Mut_invcdf_kumar(p, a, b) ==
  IF ISNAN(p) \/ ISNAN(a) \/ ISNAN(b) THEN KR(NaNSum(<<p, a, b>>), FALSE)
  ELSE IF Le(a, Zero) \/ Le(b, Zero) \/ ~VALID_PROB(p) THEN KR(NAN, TRUE)
  ELSE KR(OneMinus(Pow(OneMinus(Pow(p, Div(One, b))), Div(One, a))), FALSE)

invcdf_kumar(p, a, b) ==
  IF ISNAN(p) \/ ISNAN(a) \/ ISNAN(b) THEN KR(NaNSum(<<p, a, b>>), FALSE)
  ELSE IF Le(a, Zero) \/ Le(b, Zero) \/ ~VALID_PROB(p) THEN KR(NAN, TRUE)
  ELSE KR(Pow(OneMinus(Pow(OneMinus(p), Div(One, b))), Div(One, a)), FALSE)

rng_kumar(a, b, u) ==
  IF ISNAN(a) \/ ISNAN(b) \/ Le(a, Zero) \/ Le(b, Zero) THEN KR(NA_REAL, TRUE)
  ELSE KR(Term("rng_kumar", <<u, a, b>>), FALSE)

\* cpp_dkumar reading b at the index of a.
Mut_cpp_dkumar(xv, a, b, lp) ==
  LET dims == <<Len(xv), Len(a), Len(b)>>
      Nmax == MaxOf(dims)
      r    == [i \in 1..Nmax |->
                 pdf_kumar(At(xv, (i-1) % dims[1]), At(a, (i-1) % dims[2]),
                           At(b, ((i-1) % dims[2]) % dims[3]))]
      p    == Values(r)
  IN  Result(IF lp THEN Map1(Log, p) ELSE p, Warnings(r), FALSE)

cpp_dkumar(xv, a, b, lp) ==
  LET dims == <<Len(xv), Len(a), Len(b)>>
      Nmax == MaxOf(dims)
      r    == [i \in 1..Nmax |->
                 pdf_kumar(At(xv, (i-1) % dims[1]), At(a, (i-1) % dims[2]),
                           At(b, (i-1) % dims[3]))]
      p    == Values(r)
  IN  Result(IF lp THEN Map1(Log, p) ELSE p, Warnings(r), FALSE)

cpp_pkumar(xv, a, b, lt, lp) ==
  LET dims == <<Len(xv), Len(a), Len(b)>>
      Nmax == MaxOf(dims)
      r    == [i \in 1..Nmax |->
                 cdf_kumar(At(xv, (i-1) % dims[1]), At(a, (i-1) % dims[2]),
                           At(b, (i-1) % dims[3]))]
      p    == Values(r)
      p1   == IF ~lt THEN Map1(OneMinus, p) ELSE p
  IN  Result(IF lp THEN Map1(Log, p1) ELSE p1, Warnings(r), FALSE)

cpp_qkumar(pv, a, b, lt, lp) ==
  LET dims == <<Len(pv), Len(a), Len(b)>>
      Nmax == MaxOf(dims)
      pp0  == IF lp THEN Map1(Exp, pv) ELSE pv
      pp   == IF ~lt THEN Map1(OneMinus, pp0) ELSE pp0
      r    == [i \in 1..Nmax |->
                 invcdf_kumar(At(pp, (i-1) % dims[1]), At(a, (i-1) % dims[2]),
                              At(b, (i-1) % dims[3]))]
  IN  Result(Values(r), Warnings(r), FALSE)

cpp_rkumar(nn, a, b, us) ==
  LET dims == <<Len(a), Len(b)>>
      r    == [i \in 1..nn |->
                 rng_kumar(At(a, (i-1) % dims[1]), At(b, (i-1) % dims[2]), us[i])]
  IN  Result(Values(r), Warnings(r), FALSE)

(***************************************************************************)
(* Rayleigh                                                                *)
(***************************************************************************)
pdf_rayleigh(xx, sigma) ==
  IF ISNAN(xx) \/ ISNAN(sigma) THEN KR(NaNSum(<<xx, sigma>>), FALSE)
  ELSE IF Le(sigma, Zero) THEN KR(NAN, TRUE)
  ELSE IF Lt(xx, Zero) \/ ~R_FINITE(xx) THEN KR(Zero, FALSE)
  ELSE KR(Term("pdf_rayleigh", <<xx, sigma>>), FALSE)

cdf_rayleigh(xx, sigma) ==
  IF ISNAN(xx) \/ ISNAN(sigma) THEN KR(NaNSum(<<xx, sigma>>), FALSE)
  ELSE IF Le(sigma, Zero) THEN KR(NAN, TRUE)
  ELSE IF Lt(xx, Zero) THEN KR(Zero, FALSE)
  ELSE IF ~R_FINITE(xx) THEN KR(One, FALSE)
  ELSE KR(OneMinus(Exp(Div(Sub(Zero, Pow(xx, Num(2, 1))),
                           Mul(Num(2, 1), Pow(sigma, Num(2, 1)))))), FALSE)

invcdf_rayleigh(p, sigma) ==
  IF ISNAN(p) \/ ISNAN(sigma) THEN KR(NaNSum(<<p, sigma>>), FALSE)
  ELSE IF Lt(p, Zero) \/ Gt(p, One) \/ Le(sigma, Zero) THEN KR(NAN, TRUE)
  ELSE KR(Sqrt(Mul(Mul(Num(-2, 1), Pow(sigma, Num(2, 1))), Log(OneMinus(p)))), FALSE)

rng_rayleigh(sigma, u) ==
  IF ISNAN(sigma) \/ Le(sigma, Zero) THEN KR(NA_REAL, TRUE)
  ELSE KR(Term("rng_rayleigh", <<u, sigma>>), FALSE)

\* cpp_drayleigh warning once for every element out of the domain.
Mut_cpp_drayleigh(xv, sigma, lp) ==
  LET dims == <<Len(xv), Len(sigma)>>
      Nmax == MaxOf(dims)
      r    == [i \in 1..Nmax |->
                 pdf_rayleigh(At(xv, (i-1) % dims[1]), At(sigma, (i-1) % dims[2]))]
      p    == Values(r)
  IN  Result(IF lp THEN Map1(Log, p) ELSE p,
             Cardinality({i \in 1..Nmax : r[i].w}), FALSE)

cpp_drayleigh(xv, sigma, lp) ==
  LET dims == <<Len(xv), Len(sigma)>>
      Nmax == MaxOf(dims)
      r    == [i \in 1..Nmax |->
                 pdf_rayleigh(At(xv, (i-1) % dims[1]), At(sigma, (i-1) % dims[2]))]
      p    == Values(r)
  IN  Result(IF lp THEN Map1(Log, p) ELSE p, Warnings(r), FALSE)

cpp_prayleigh(xv, sigma, lt, lp) ==
  LET dims == <<Len(xv), Len(sigma)>>
      Nmax == MaxOf(dims)
      r    == [i \in 1..Nmax |->
                 cdf_rayleigh(At(xv, (i-1) % dims[1]), At(sigma, (i-1) % dims[2]))]
      p    == Values(r)
      p1   == IF ~lt THEN Map1(OneMinus, p) ELSE p
  IN  Result(IF lp THEN Map1(Log, p1) ELSE p1, Warnings(r), FALSE)

cpp_qrayleigh(pv, sigma, lt, lp) ==
  LET dims == <<Len(pv), Len(sigma)>>
      Nmax == MaxOf(dims)
      pp0  == IF lp THEN Map1(Exp, pv) ELSE pv
      pp   == IF ~lt THEN Map1(OneMinus, pp0) ELSE pp0
      r    == [i \in 1..Nmax |->
                 invcdf_rayleigh(At(pp, (i-1) % dims[1]), At(sigma, (i-1) % dims[2]))]
  IN  Result(Values(r), Warnings(r), FALSE)

cpp_rrayleigh(nn, sigma, us) ==
  LET dims == Len(sigma)
      r    == [i \in 1..nn |-> rng_rayleigh(At(sigma, (i-1) % dims), us[i])]
  IN  Result(Values(r), Warnings(r), FALSE)

(***************************************************************************)
(* Bernoulli                                                               *)
(***************************************************************************)
pdf_bernoulli(xx, prob) ==
  IF ISNAN(xx) \/ ISNAN(prob) THEN KR(NaNSum(<<xx, prob>>), FALSE)
  ELSE IF Lt(prob, Zero) \/ Gt(prob, One) THEN KR(NAN, TRUE)
  ELSE IF xx = One THEN KR(prob, FALSE)
  ELSE IF xx = Zero THEN KR(OneMinus(prob), FALSE)
  ELSE KW(Zero, 1)

cdf_bernoulli(xx, prob) ==
  IF ISNAN(xx) \/ ISNAN(prob) THEN KR(NaNSum(<<xx, prob>>), FALSE)
  ELSE IF Lt(prob, Zero) \/ Gt(prob, One) THEN KR(NAN, TRUE)
  ELSE IF Lt(xx, Zero) THEN KR(Zero, FALSE)
  ELSE IF Lt(xx, One) THEN KR(OneMinus(prob), FALSE)
  ELSE KR(One, FALSE)

invcdf_bernoulli(p, prob) ==
  IF ISNAN(p) \/ ISNAN(prob) THEN KR(NaNSum(<<p, prob>>), FALSE)
  ELSE IF Lt(prob, Zero) \/ Gt(prob, One) \/ Lt(p, Zero) \/ Gt(p, One)
    THEN KR(NAN, TRUE)
  ELSE KR(IF Le(p, OneMinus(prob)) THEN Zero ELSE One, FALSE)

rng_bernoulli(p, u) ==
  IF ISNAN(p) \/ Lt(p, Zero) \/ Gt(p, One) THEN KR(NA_REAL, TRUE)
  ELSE KR(IF Gt(u, p) THEN Zero ELSE One, FALSE)

cpp_dbern(xv, prob, lp) ==
  LET dims == <<Len(xv), Len(prob)>>
      Nmax == MaxOf(dims)
      r    == [i \in 1..Nmax |->
                 pdf_bernoulli(At(xv, (i-1) % dims[1]), At(prob, (i-1) % dims[2]))]
      p    == Values(r)
  IN  Result(IF lp THEN Map1(Log, p) ELSE p, Warnings(r), FALSE)

cpp_pbern(xv, prob, lt, lp) ==
  LET dims == <<Len(xv), Len(prob)>>
      Nmax == MaxOf(dims)
      r    == [i \in 1..Nmax |->
                 cdf_bernoulli(At(xv, (i-1) % dims[1]), At(prob, (i-1) % dims[2]))]
      p    == Values(r)
      p1   == IF ~lt THEN Map1(OneMinus, p) ELSE p
  IN  Result(IF lp THEN Map1(Log, p1) ELSE p1, Warnings(r), FALSE)

cpp_qbern(pv, prob, lt, lp) ==
  LET dims == <<Len(pv), Len(prob)>>
      Nmax == MaxOf(dims)
      pp0  == IF lp THEN Map1(Exp, pv) ELSE pv
      pp   == IF ~lt THEN Map1(OneMinus, pp0) ELSE pp0
      r    == [i \in 1..Nmax |->
                 invcdf_bernoulli(At(pp, (i-1) % dims[1]), At(prob, (i-1) % dims[2]))]
  IN  Result(Values(r), Warnings(r), FALSE)

cpp_rbern(nn, prob, us) ==
  LET dims == Len(prob)
      r    == [i \in 1..nn |-> rng_bernoulli(At(prob, (i-1) % dims), us[i])]
  IN  Result(Values(r), Warnings(r), FALSE)

(***************************************************************************)
(* Calls                                                                   *)
(***************************************************************************)
\* The vectors of 1..MaxLen elements of D.
Vecs(D) == UNION {[1..L -> D] : L \in 1..MaxLen}

\* The values of rng_unif().
UDom == {Num(1, 4), Num(3, 4)}

\* The state before the driver runs.
Fresh ==
  /\ draws = <<>> /\ out = <<>> /\ warnings = 0 /\ oob = FALSE /\ pc = "call"
  /\ idx = 0 /\ memo = <<>> /\ acc = <<>> /\ since = 0 /\ interrupt = FALSE
  /\ built = <<>> /\ last = <<>>

\* A d* call: x and the parameter vectors P, with log_prob.
InitD(f, XD, P) ==
  /\ fn = f /\ x \in Vecs(XD) /\ par \in P /\ n = 0
  /\ lower_tail = TRUE /\ log_prob \in BOOLEAN /\ Fresh

\* A p* call.
InitP(f, XD, P) ==
  /\ fn = f /\ x \in Vecs(XD) /\ par \in P /\ n = 0
  /\ lower_tail \in BOOLEAN /\ log_prob \in BOOLEAN /\ Fresh

\* A q* call: probabilities PD, or their logarithms with log_prob.
InitQ(f, PD, LPD, P) ==
  /\ fn = f /\ log_prob \in BOOLEAN /\ lower_tail \in BOOLEAN
  /\ x \in Vecs(IF log_prob THEN LPD ELSE PD) /\ par \in P /\ n = 0 /\ Fresh

\* An r* call.
InitR(f, P) ==
  /\ fn = f /\ x = <<>> /\ par \in P /\ n \in 1..MaxN
  /\ lower_tail = TRUE /\ log_prob = FALSE /\ Fresh

\* The driver returned r.
Return(r) ==
  /\ pc = "call"
  /\ out' = r.out /\ warnings' = r.warnings /\ oob' = r.oob /\ pc' = "done"
  /\ UNCHANGED <<fn, x, par, n, lower_tail, log_prob>>
  /\ UNCHANGED loopvars

\* The doubles a read past the end of a vector may return.
JunkDom == {NA_REAL, Half, Num(7, 1)}

\* The lengths of the arguments vs of a call.
Lens(vs) == [k \in 1..Len(vs) |-> Len(vs[k])]

\* Some argument of a call is empty while its output is not: the element
\* loop takes an index modulo 0.
ModZero(vs) == MaxOf(Lens(vs)) > 0 /\ \E k \in 1..Len(vs) : Len(vs[k]) = 0

\* i % 0 is undefined: the call traps on the division, or goes on with
\* some index and reads the empty vector, returning as many elements as
\* the longest of vs has, of whatever it found.
Undefined(vs) ==
  /\ pc = "call"
  /\ \/ pc' = "trap" /\ out' = out /\ oob' = oob
     \/ pc' = "done" /\ out' \in [1..MaxOf(Lens(vs)) -> JunkDom] /\ oob' = TRUE
  /\ UNCHANGED <<fn, x, par, n, lower_tail, log_prob, warnings>>
  /\ UNCHANGED loopvars

Call_dkumar ==
  /\ fn = "cpp_dkumar" /\ draws' = draws
  /\ IF ModZero(<<x>> \o par) THEN Undefined(<<x>> \o par)
     ELSE Return(cpp_dkumar(x, par[1], par[2], log_prob))

Call_pkumar ==
  /\ fn = "cpp_pkumar" /\ draws' = draws
  /\ Return(cpp_pkumar(x, par[1], par[2], lower_tail, log_prob))

Call_qkumar ==
  /\ fn = "cpp_qkumar" /\ draws' = draws
  /\ Return(cpp_qkumar(x, par[1], par[2], lower_tail, log_prob))

Call_rkumar ==
  /\ fn = "cpp_rkumar"
  /\ \E us \in [1..n -> UDom] : draws' = us /\ Return(cpp_rkumar(n, par[1], par[2], us))

Call_drayleigh ==
  fn = "cpp_drayleigh" /\ draws' = draws /\ Return(cpp_drayleigh(x, par[1], log_prob))

Call_prayleigh ==
  /\ fn = "cpp_prayleigh" /\ draws' = draws
  /\ Return(cpp_prayleigh(x, par[1], lower_tail, log_prob))

Call_qrayleigh ==
  /\ fn = "cpp_qrayleigh" /\ draws' = draws
  /\ Return(cpp_qrayleigh(x, par[1], lower_tail, log_prob))

Call_rrayleigh ==
  /\ fn = "cpp_rrayleigh"
  /\ \E us \in [1..n -> UDom] : draws' = us /\ Return(cpp_rrayleigh(n, par[1], us))

Call_dbern ==
  /\ fn = "cpp_dbern" /\ draws' = draws
  /\ IF ModZero(<<x>> \o par) THEN Undefined(<<x>> \o par)
     ELSE Return(cpp_dbern(x, par[1], log_prob))

Call_pbern ==
  /\ fn = "cpp_pbern" /\ draws' = draws
  /\ Return(cpp_pbern(x, par[1], lower_tail, log_prob))

Call_qbern ==
  /\ fn = "cpp_qbern" /\ draws' = draws
  /\ Return(cpp_qbern(x, par[1], lower_tail, log_prob))

Call_rbern ==
  /\ fn = "cpp_rbern"
  /\ \E us \in [1..n -> UDom] : draws' = us /\ Return(cpp_rbern(n, par[1], us))

(***************************************************************************)
(* Spec: the Kumaraswamy, Rayleigh and Bernoulli drivers over arguments of *)
(* every combination of lengths 1..MaxLen.                                 *)
(***************************************************************************)
XDom == {NA_REAL, Half, Num(2, 1)}
PDom == {NA_REAL, Half, Num(2, 1)}
LogPDom == {NA_REAL, Log(Half), Zero}
ADom == {Zero, Num(2, 1)}
BDom == {One, Num(3, 1)}
SigmaDom == {Zero, Num(2, 1)}
ProbDom == {Num(1, 4), Num(2, 1)}
BernXDom == {NA_REAL, Zero, One}

KumarPar == Vecs(ADom) \X Vecs(BDom)
RayleighPar == {<<s>> : s \in Vecs(SigmaDom)}
BernPar == {<<s>> : s \in Vecs(ProbDom)}

Init ==
  \/ InitD("cpp_dkumar", XDom, KumarPar)
  \/ InitP("cpp_pkumar", XDom, KumarPar)
  \/ InitQ("cpp_qkumar", PDom, LogPDom, KumarPar)
  \/ InitR("cpp_rkumar", KumarPar)
  \/ InitD("cpp_drayleigh", XDom, RayleighPar)
  \/ InitP("cpp_prayleigh", XDom, RayleighPar)
  \/ InitQ("cpp_qrayleigh", PDom, LogPDom, RayleighPar)
  \/ InitR("cpp_rrayleigh", RayleighPar)
  \/ InitD("cpp_dbern", BernXDom, BernPar)
  \/ InitP("cpp_pbern", BernXDom, BernPar)
  \/ InitQ("cpp_qbern", PDom, LogPDom, BernPar)
  \/ InitR("cpp_rbern", BernPar)

Next ==
  \/ Call_dkumar \/ Call_pkumar \/ Call_qkumar \/ Call_rkumar
  \/ Call_drayleigh \/ Call_prayleigh \/ Call_qrayleigh \/ Call_rrayleigh
  \/ Call_dbern \/ Call_pbern \/ Call_qbern \/ Call_rbern

Spec == Init /\ [][Next]_vars

(***************************************************************************)
(* The expected output of a call                                           *)
(***************************************************************************)
\* Element i (from 0) of v under recycling: the one at index i mod length(v).
Recycled(v, i) == v[(i % Len(v)) + 1]

\* The number of output elements of a d*, p* or q* call with arguments vs.
OutLen(vs) == MaxOf([k \in 1..Len(vs) |-> Len(vs[k])])

\* The post-processing of a density and of a lower-tail probability.
PostD(v) == IF log_prob THEN Log(v) ELSE v
PostP(v) ==
  LET c == IF lower_tail THEN v ELSE OneMinus(v)
  IN  IF log_prob THEN Log(c) ELSE c
\* The probability a q* call's p stands for.
PreQ(v) ==
  LET e == IF log_prob THEN Exp(v) ELSE v
  IN  IF lower_tail THEN e ELSE OneMinus(e)

\* Element i of the output is E(i), for every i below the length N.
OutIs(N, E(_)) == Len(out) = N /\ \A i \in 0..(N-1) : out[i+1] = E(i)

C1_kumar(i) ==
  LET xi == Recycled(x, i)
      a  == Recycled(par[1], i)
      b  == Recycled(par[2], i)
  IN  CASE fn = "cpp_dkumar" -> PostD(pdf_kumar(xi, a, b).v)
        [] fn = "cpp_pkumar" -> PostP(cdf_kumar(xi, a, b).v)
        [] fn = "cpp_qkumar" -> invcdf_kumar(PreQ(xi), a, b).v

C1_rayleigh(i) ==
  LET xi == Recycled(x, i)
      s  == Recycled(par[1], i)
  IN  CASE fn = "cpp_drayleigh" -> PostD(pdf_rayleigh(xi, s).v)
        [] fn = "cpp_prayleigh" -> PostP(cdf_rayleigh(xi, s).v)
        [] fn = "cpp_qrayleigh" -> invcdf_rayleigh(PreQ(xi), s).v

C1_bern(i) ==
  LET xi == Recycled(x, i)
      s  == Recycled(par[1], i)
  IN  CASE fn = "cpp_dbern" -> PostD(pdf_bernoulli(xi, s).v)
        [] fn = "cpp_pbern" -> PostP(cdf_bernoulli(xi, s).v)
        [] fn = "cpp_qbern" -> invcdf_bernoulli(PreQ(xi), s).v

C1_rng(i) ==
  CASE fn = "cpp_rkumar" ->
         rng_kumar(Recycled(par[1], i), Recycled(par[2], i), draws[i+1]).v
    [] fn = "cpp_rrayleigh" -> rng_rayleigh(Recycled(par[1], i), draws[i+1]).v
    [] fn = "cpp_rbern" -> rng_bernoulli(Recycled(par[1], i), draws[i+1]).v

\* C1: a Kumaraswamy, Rayleigh or Bernoulli d*, p* or q* call returns
\* N = max of the argument lengths elements, element i being the kernel at
\* each argument's element i mod its length; an r* call returns n elements,
\* element i drawn with each parameter's element i mod its length.
C1_Recycling ==
  pc = "done" =>
    CASE fn \in {"cpp_dkumar", "cpp_pkumar", "cpp_qkumar"} ->
           OutIs(OutLen(<<x>> \o par), C1_kumar)
      [] fn \in {"cpp_drayleigh", "cpp_prayleigh", "cpp_qrayleigh"} ->
           OutIs(OutLen(<<x>> \o par), C1_rayleigh)
      [] fn \in {"cpp_dbern", "cpp_pbern", "cpp_qbern"} ->
           OutIs(OutLen(<<x>> \o par), C1_bern)
      [] fn \in {"cpp_rkumar", "cpp_rrayleigh", "cpp_rbern"} ->
           OutIs(n, C1_rng)
      [] OTHER -> TRUE

\* A call whose arguments differ in length and whose recycled parameter
\* changes the result from one element to the next.
C1_Witness ==
  /\ pc = "done" /\ fn = "cpp_dkumar"
  /\ Len(x) = 1 /\ Len(par[1]) = 2 /\ Len(par[2]) = 1
  /\ Len(out) = 2 /\ out[1] # out[2]

(***************************************************************************)
(* Zero-inflated binomial                                                  *)
(***************************************************************************)
\* a - b and a / b on doubles that are numbers (the kernels test ISNAN first).
\* An element read at index i of v: past the end, whatever lies there.
Rd(v, i, junk) == IF i < Len(v) THEN v[i + 1] ELSE junk


isInteger(v) == IF v.k = "num" THEN v.d = 1 ELSE v.k \in {"Inf", "-Inf"}

std_isinf(v) == v.k \in {"Inf", "-Inf"}

\* The validators of shared.h: an element outside the domain becomes NAN
\* and the call is to warn once.
nonneg_or_nan(v) ==
  [i \in 1..Len(v) |-> IF Lt(v[i], Zero) THEN KR(NAN, TRUE) ELSE KR(v[i], FALSE)]

zeroone_or_nan(v) ==
  [i \in 1..Len(v) |->
     IF Lt(v[i], Zero) \/ Gt(v[i], One) THEN KR(NAN, TRUE) ELSE KR(v[i], FALSE)]

pdf_zib(xx, nn, p, pi) ==
  IF ISNAN(xx) \/ ISNAN(nn) \/ ISNAN(p) \/ ISNAN(pi) THEN NAN
  ELSE IF Lt(xx, Zero) \/ ~isInteger(xx) \/ std_isinf(xx) THEN Zero
  ELSE IF xx = Zero THEN Term("pdf_zib_0", <<nn, p, pi>>)
  ELSE Term("pdf_zib", <<xx, nn, p, pi>>)

cdf_zib(xx, nn, p, pi) ==
  IF ISNAN(xx) \/ ISNAN(nn) \/ ISNAN(p) \/ ISNAN(pi) THEN NAN
  ELSE IF Lt(xx, Zero) THEN Zero
  ELSE IF std_isinf(xx) THEN One
  ELSE Term("cdf_zib", <<xx, nn, p, pi>>)

\* R::qbinom(q, nn, p), lower tail: NaN for a NaN argument or a q outside
\* [0, 1], the ends 0 and nn for q = 0 and q = 1, else the quantile.
qbinom(q, nn, p) ==
  IF ISNAN(q) \/ ISNAN(nn) \/ ISNAN(p) THEN NaNSum(<<q, nn, p>>)
  ELSE IF Lt(q, Zero) \/ Gt(q, One) THEN NAN
  ELSE IF q = Zero THEN Zero
  ELSE IF q = One THEN nn
  ELSE Term("qbinom", <<q, nn, p>>)

\* invcdf_zib handing pp itself to qbinom.
Mut_invcdf_zib(pp, nn, p, pi) ==
  IF ISNAN(pp) \/ ISNAN(nn) \/ ISNAN(p) \/ ISNAN(pi) THEN NAN
  ELSE IF Lt(pp, pi) THEN Zero
  ELSE qbinom(pp, nn, p)

invcdf_zib(pp, nn, p, pi) ==
  IF ISNAN(pp) \/ ISNAN(nn) \/ ISNAN(p) \/ ISNAN(pi) THEN NAN
  ELSE IF Lt(pp, pi) THEN Zero
  ELSE qbinom(Div(Sub(pp, pi), OneMinus(pi)), nn, p)

rng_zib(nn, p, pi, uu) ==
  IF ISNAN(nn) \/ ISNAN(p) \/ ISNAN(pi) THEN NAN
  ELSE IF Lt(uu, pi) THEN Zero
  ELSE Term("rbinom", <<nn, p>>)

cpp_dzib(xv, size, prob, pi, lp) ==
  LET nx     == Len(xv)
      npi    == Len(pi)
      ns     == Len(size)
      np     == Len(prob)
      Nmax   == MaxOf(<<nx, npi, ns, np>>)
      size_n == nonneg_or_nan(size)
      prob_n == zeroone_or_nan(prob)
      pi_n   == zeroone_or_nan(pi)
      p      == [i \in 1..Nmax |->
                   pdf_zib(At(xv, (i-1) % nx), At(size_n, (i-1) % ns).v,
                           At(prob_n, (i-1) % np).v, At(pi_n, (i-1) % npi).v)]
  IN  Result(IF lp THEN Map1(Log, p) ELSE p,
             Warnings(size_n \o prob_n \o pi_n), FALSE)

cpp_pzib(xv, size, prob, pi, lt, lp, junk) ==
  LET nx     == Len(xv)
      npi    == Len(pi)
      ns     == Len(size)
      np     == Len(prob)
      Nmax   == MaxOf(<<nx, npi, ns, np>>)
      size_n == nonneg_or_nan(size)
      prob_n == zeroone_or_nan(prob)
      pi_n   == Values(zeroone_or_nan(pi))
      p      == [i \in 1..Nmax |->
                   cdf_zib(At(xv, (i-1) % nx), At(size_n, (i-1) % ns).v,
                           At(prob_n, (i-1) % np).v,
                           Rd(pi_n, (i-1) % np, junk[i]))]
      p1     == IF ~lt THEN Map1(OneMinus, p) ELSE p
  IN  Result(IF lp THEN Map1(Log, p1) ELSE p1,
             Warnings(size_n \o prob_n \o zeroone_or_nan(pi)),
             \E i \in 1..Nmax : (i-1) % np >= npi)

cpp_qzib(pv, size, prob, pi, lt, lp, junk) ==
  LET nx     == Len(pv)
      npi    == Len(pi)
      ns     == Len(size)
      np     == Len(prob)
      Nmax   == MaxOf(<<nx, npi, ns, np>>)
      size_n == nonneg_or_nan(size)
      prob_n == zeroone_or_nan(prob)
      pi_n   == Values(zeroone_or_nan(pi))
      pp0    == IF lp THEN Map1(Exp, pv) ELSE pv
      pp1    == IF ~lt THEN Map1(OneMinus, pp0) ELSE pp0
      pp     == zeroone_or_nan(pp1)
      q      == [i \in 1..Nmax |->
                   invcdf_zib(At(pp, (i-1) % nx).v, At(size_n, (i-1) % ns).v,
                              At(prob_n, (i-1) % np).v,
                              Rd(pi_n, (i-1) % np, junk[i]))]
  IN  Result(q, Warnings(size_n \o prob_n \o zeroone_or_nan(pi) \o pp),
             \E i \in 1..Nmax : (i-1) % np >= npi)

cpp_rzib(nn, size, prob, pi, us) ==
  LET npi    == Len(pi)
      ns     == Len(size)
      np     == Len(prob)
      size_n == nonneg_or_nan(size)
      prob_n == zeroone_or_nan(prob)
      pi_n   == zeroone_or_nan(pi)
      xs     == [i \in 1..nn |->
                   rng_zib(At(size_n, (i-1) % ns).v, At(prob_n, (i-1) % np).v,
                           At(pi_n, (i-1) % npi).v, us[i])]
  IN  Result(xs, Warnings(size_n \o prob_n \o pi_n), FALSE)

\* What may lie past the end of the vectors, for each of the N elements.
Junk(N) == [1..N -> JunkDom]

\* The junk is read only by a call that reads past the end.
NoJunk(N) == [i \in 1..N |-> NAN]

Call_dzib ==
  /\ fn = "cpp_dzib" /\ draws' = draws
  /\ Return(cpp_dzib(x, par[1], par[2], par[3], log_prob))

Call_pzib ==
  /\ fn = "cpp_pzib" /\ draws' = draws
  /\ LET N == MaxOf(<<Len(x), Len(par[1]), Len(par[2]), Len(par[3])>>)
     IN  \E junk \in (IF Len(par[2]) > Len(par[3]) THEN Junk(N) ELSE {NoJunk(N)}) :
           Return(cpp_pzib(x, par[1], par[2], par[3], lower_tail, log_prob, junk))

Call_qzib ==
  /\ fn = "cpp_qzib" /\ draws' = draws
  /\ LET N == MaxOf(<<Len(x), Len(par[1]), Len(par[2]), Len(par[3])>>)
     IN  \E junk \in (IF Len(par[2]) > Len(par[3]) THEN Junk(N) ELSE {NoJunk(N)}) :
           Return(cpp_qzib(x, par[1], par[2], par[3], lower_tail, log_prob, junk))

Call_rzib ==
  /\ fn = "cpp_rzib"
  /\ \E us \in [1..n -> UDom] :
       draws' = us /\ Return(cpp_rzib(n, par[1], par[2], par[3], us))

(***************************************************************************)
(* SpecZib: the zero-inflated binomial drivers.                            *)
(***************************************************************************)
ZibXDom == {NA_REAL, Zero, One}
SizeDom == {One, Num(2, 1)}
ZibProbDom == {Num(1, 4), Half}
PiDom == {Zero, Half}
ZibPar == Vecs(SizeDom) \X Vecs(ZibProbDom) \X Vecs(PiDom)

InitZib ==
  \/ InitD("cpp_dzib", ZibXDom, ZibPar)
  \/ InitP("cpp_pzib", ZibXDom, ZibPar)
  \/ InitQ("cpp_qzib", PDom, LogPDom, ZibPar)
  \/ InitR("cpp_rzib", ZibPar)

NextZib == Call_dzib \/ Call_pzib \/ Call_qzib \/ Call_rzib

SpecZib == InitZib /\ [][NextZib]_vars

C2_zib(i) ==
  LET xi   == Recycled(x, i)
      size == Recycled(Values(nonneg_or_nan(par[1])), i)
      prob == Recycled(Values(zeroone_or_nan(par[2])), i)
      pi   == Recycled(Values(zeroone_or_nan(par[3])), i)
  IN  CASE fn = "cpp_dzib" -> PostD(pdf_zib(xi, size, prob, pi))
        [] fn = "cpp_pzib" -> PostP(cdf_zib(xi, size, prob, pi))
        [] fn = "cpp_qzib" ->
             invcdf_zib(zeroone_or_nan(<<PreQ(xi)>>)[1].v, size, prob, pi)

C2_rzib(i) ==
  rng_zib(Recycled(Values(nonneg_or_nan(par[1])), i),
          Recycled(Values(zeroone_or_nan(par[2])), i),
          Recycled(Values(zeroone_or_nan(par[3])), i), draws[i+1])

\* C2: every zero-inflated binomial driver computes element i from pi, prob,
\* size and x (or p) each at i mod its own length.
C2_ZibRecycling ==
  pc = "done" =>
    CASE fn \in {"cpp_dzib", "cpp_pzib", "cpp_qzib"} ->
           OutIs(OutLen(<<x>> \o par), C2_zib)
      [] fn = "cpp_rzib" -> OutIs(n, C2_rzib)
      [] OTHER -> TRUE

\* The same of cpp_dzib and cpp_rzib alone, which index pi by its own length.
C2_DzibRzib == fn \in {"cpp_dzib", "cpp_rzib"} => C2_ZibRecycling

(***************************************************************************)
(* Categorical                                                             *)
(***************************************************************************)
\* static_cast<int> of a finite double: truncation toward zero.
ToInt(v) == IF v.n >= 0 THEN v.n \div v.d ELSE -((-v.n) \div v.d)

RECURSIVE RowSum(_)
RowSum(row) == IF row = <<>> THEN Zero ELSE Add(Head(row), RowSum(Tail(row)))

\* normalize_prob of shared.h, row by row: a row with a missing or negative
\* weight becomes NAN throughout (the call is to warn), any other row is
\* divided by its sum.
normalize_prob(prob) ==
  [i \in 1..Len(prob) |->
     LET row == prob[i]
         bad == \E j \in 1..Len(row) : ISNAN(row[j]) \/ Lt(row[j], Zero)
         tot == RowSum(row)
     IN  IF bad THEN KR([j \in 1..Len(row) |-> NAN], TRUE)
         ELSE KR([j \in 1..Len(row) |-> Div(row[j], tot)], FALSE)]

\* The body of cpp_dcat's loop: the query xi against the normalized row.
dcat_elem(xi, row, k) ==
  IF ISNAN(xi) THEN NA_REAL
  ELSE IF ~isInteger(xi) \/ Lt(xi, One) \/ Gt(xi, Num(k, 1))
    THEN (IF ISNAN(row[1]) THEN NAN ELSE Zero)
  ELSE row[ToInt(Sub(xi, One)) + 1]

RECURSIVE PartialSum(_, _)
PartialSum(row, j) ==
  IF j = 0 THEN Zero ELSE Add(PartialSum(row, j - 1), row[j])

\* cpp_pcat's loop body with the sum stopping one category short.
Mut_pcat_elem(xi, row, k) ==
  IF ISNAN(xi) THEN NA_REAL
  ELSE IF Lt(xi, One) THEN (IF ISNAN(row[1]) THEN NAN ELSE Zero)
  ELSE IF Gt(xi, Num(k, 1)) THEN (IF ISNAN(row[1]) THEN NAN ELSE One)
  ELSE PartialSum(row, ToInt(xi) - 1)

\* The body of cpp_pcat's loop.
pcat_elem(xi, row, k) ==
  IF ISNAN(xi) THEN NA_REAL
  ELSE IF Lt(xi, One) THEN (IF ISNAN(row[1]) THEN NAN ELSE Zero)
  ELSE IF Gt(xi, Num(k, 1)) THEN (IF ISNAN(row[1]) THEN NAN ELSE One)
  ELSE PartialSum(row, ToInt(xi))

\* The downward scan stopping as soon as pp >= p_tmp.
RECURSIVE Mut_cat_scan(_, _, _, _)
Mut_cat_scan(row, pp, j, p_tmp) ==
  IF j < 0 THEN [jj |-> 0, p_tmp |-> p_tmp]
  ELSE LET t == Sub(p_tmp, row[j + 1])
       IN  IF Ge(pp, t) THEN [jj |-> j, p_tmp |-> t]
           ELSE Mut_cat_scan(row, pp, j - 1, t)

\* The downward scan of cpp_qcat and cpp_rcat from category j (from 0) with
\* p_tmp the mass left: the category found (0 when none is) and p_tmp.
RECURSIVE cat_scan(_, _, _, _)
cat_scan(row, pp, j, p_tmp) ==
  IF j < 0 THEN [jj |-> 0, p_tmp |-> p_tmp]
  ELSE LET t == Sub(p_tmp, row[j + 1])
       IN  IF Gt(pp, t) THEN [jj |-> j, p_tmp |-> t]
           ELSE cat_scan(row, pp, j - 1, t)

\* The body of cpp_qcat's loop.
qcat_elem(ppi, row, k) ==
  IF ISNAN(ppi) THEN KR(NA_REAL, FALSE)
  ELSE IF Lt(ppi, Zero) \/ Gt(ppi, One) THEN KW(NAN, 1)
  ELSE IF ppi = Zero THEN KR(IF ISNAN(row[1]) THEN NAN ELSE One, FALSE)
  ELSE LET s == cat_scan(row, ppi, k - 1, One)
       IN  KR(IF ISNAN(s.p_tmp) THEN NAN ELSE Num(s.jj + 1, 1), FALSE)

cpp_dcat(xv, prob, lp, junk) ==
  LET nx     == Len(xv)
      np     == Len(prob)
      Nmax   == MaxOf(<<nx, np>>)
      k      == Len(prob[1])
      prob_n == normalize_prob(prob)
      p      == [i \in 1..Nmax |->
                   dcat_elem(Rd(xv, i-1, junk[i]), At(prob_n, (i-1) % np).v, k)]
  IN  Result(IF lp THEN Map1(Log, p) ELSE p, Warnings(prob_n), Nmax > nx)

cpp_pcat(xv, prob, lt, lp, junk) ==
  LET nx     == Len(xv)
      np     == Len(prob)
      Nmax   == MaxOf(<<nx, np>>)
      k      == Len(prob[1])
      prob_n == normalize_prob(prob)
      p      == [i \in 1..Nmax |->
                   pcat_elem(Rd(xv, i-1, junk[i]), At(prob_n, (i-1) % np).v, k)]
      p1     == IF ~lt THEN Map1(OneMinus, p) ELSE p
  IN  Result(IF lp THEN Map1(Log, p1) ELSE p1, Warnings(prob_n), Nmax > nx)

cpp_qcat(pv, prob, lt, lp, junk) ==
  LET nx     == Len(pv)
      np     == Len(prob)
      Nmax   == MaxOf(<<nx, np>>)
      k      == Len(prob[1])
      pp0    == IF lp THEN Map1(Exp, pv) ELSE pv
      pp     == IF ~lt THEN Map1(OneMinus, pp0) ELSE pp0
      prob_n == normalize_prob(prob)
      r      == [i \in 1..Nmax |->
                   qcat_elem(Rd(pp, i-1, junk[i]), At(prob_n, (i-1) % np).v, k)]
  IN  Result(Values(r), Warnings(prob_n \o r), Nmax > nx)

\* The body of cpp_rcat's loop for the uniform draw u.
rcat_elem(u, row, k) ==
  LET s == cat_scan(row, u, k - 1, One)
  IN  IF ISNAN(s.p_tmp) THEN NAN ELSE Num(s.jj + 1, 1)

cpp_rcat(nn, prob, us) ==
  LET np     == Len(prob)
      k      == Len(prob[1])
      prob_n == normalize_prob(prob)
      xs     == [i \in 1..nn |-> rcat_elem(us[i], At(prob_n, (i-1) % np).v, k)]
  IN  Result(xs, Warnings(prob_n), FALSE)

Call_rcat ==
  /\ fn = "cpp_rcat"
  /\ \E us \in [1..n -> UDom] : draws' = us /\ Return(cpp_rcat(n, par[1], us))

Call_dcat ==
  /\ fn = "cpp_dcat" /\ draws' = draws
  /\ LET N == MaxOf(<<Len(x), Len(par[1])>>)
     IN  \E junk \in (IF N > Len(x) THEN Junk(N) ELSE {NoJunk(N)}) :
           Return(cpp_dcat(x, par[1], log_prob, junk))

Call_pcat ==
  /\ fn = "cpp_pcat" /\ draws' = draws
  /\ LET N == MaxOf(<<Len(x), Len(par[1])>>)
     IN  \E junk \in (IF N > Len(x) THEN Junk(N) ELSE {NoJunk(N)}) :
           Return(cpp_pcat(x, par[1], lower_tail, log_prob, junk))

Call_qcat ==
  /\ fn = "cpp_qcat" /\ draws' = draws
  /\ LET N == MaxOf(<<Len(x), Len(par[1])>>)
     IN  \E junk \in (IF N > Len(x) THEN Junk(N) ELSE {NoJunk(N)}) :
           Return(cpp_qcat(x, par[1], lower_tail, log_prob, junk))

(***************************************************************************)
(* SpecCat: the categorical d*, p* and q* drivers over probability         *)
(* matrices of 1..MaxLen rows and three columns.                           *)
(***************************************************************************)
CatXDom == {NA_REAL, One, Num(2, 1), Num(3, 1), Num(3, 2)}
RowDom ==
  { <<Num(1, 4), Num(1, 4), Half>>, <<One, Num(2, 1), One>>,
    <<Half, Zero, Half>>, <<NA_REAL, Half, Half>> }
CatPar == {<<m>> : m \in Vecs(RowDom)}

InitCat ==
  \/ InitD("cpp_dcat", CatXDom, CatPar)
  \/ InitP("cpp_pcat", CatXDom, CatPar)
  \/ InitQ("cpp_qcat", {NA_REAL, Zero, Num(1, 4), Half, One, Num(2, 1)},
           {NA_REAL, Log(Half), Zero}, CatPar)

NextCat == Call_dcat \/ Call_pcat \/ Call_qcat

SpecCat == InitCat /\ [][NextCat]_vars

C3_cat(i) ==
  LET xi  == Recycled(x, i)
      row == Recycled(normalize_prob(par[1]), i).v
      k   == Len(par[1][1])
  IN  CASE fn = "cpp_dcat" -> PostD(dcat_elem(xi, row, k))
        [] fn = "cpp_pcat" -> PostP(pcat_elem(xi, row, k))
        [] fn = "cpp_qcat" -> qcat_elem(PreQ(xi), row, k).v

\* C3: a categorical d*, p* or q* call returns max(length(x), nrow(prob))
\* elements, element i from x (or p) at i mod its length and the
\* probability row at i mod nrow(prob), and reads nothing past the end of x.
C3_CatRecycling ==
  (pc = "done" /\ fn \in {"cpp_dcat", "cpp_pcat", "cpp_qcat"}) =>
    ~oob /\ OutIs(OutLen(<<x>> \o par), C3_cat)

\* The same of the calls in which prob has no more rows than x has elements.
C3_EnoughX == Len(par[1]) <= Len(x) => C3_CatRecycling

(***************************************************************************)
(* Re-parametrized beta                                                    *)
(***************************************************************************)
\* The shape parameters handed to the beta distribution of R.
prop_shapes(size, mean) ==
  <<Add(Mul(size, mean), One), Add(Mul(size, OneMinus(mean)), One)>>

pdf_prop(xx, size, mean) ==
  IF ISNAN(xx) \/ ISNAN(size) \/ ISNAN(mean) THEN KR(NA_REAL, FALSE)
  ELSE IF Le(size, Zero) \/ Lt(mean, Zero) \/ Gt(mean, One) THEN KW(NAN, 1)
  ELSE KR(Term("dbeta", <<xx>> \o prop_shapes(size, mean)), FALSE)

cdf_prop(xx, size, mean) ==
  IF ISNAN(xx) \/ ISNAN(size) \/ ISNAN(mean) THEN KR(NA_REAL, FALSE)
  ELSE IF Le(size, Zero) \/ Lt(mean, Zero) \/ Gt(mean, One) THEN KW(NAN, 1)
  ELSE KR(Term("pbeta", <<xx>> \o prop_shapes(size, mean)), FALSE)

invcdf_prop(p, size, mean) ==
  IF ISNAN(p) \/ ISNAN(size) \/ ISNAN(mean) THEN KR(NA_REAL, FALSE)
  ELSE IF Le(size, Zero) \/ Lt(mean, Zero) \/ Gt(mean, One)
          \/ Lt(p, Zero) \/ Gt(p, One) THEN KW(NAN, 1)
  ELSE KR(Term("qbeta", <<p>> \o prop_shapes(size, mean)), FALSE)

rng_prop(size, mean) ==
  IF ISNAN(size) \/ ISNAN(mean)
     \/ Le(size, Zero) \/ Lt(mean, Zero) \/ Gt(mean, One) THEN KW(NA_REAL, 1)
  ELSE KR(Term("rbeta", prop_shapes(size, mean)), FALSE)

cpp_dprop(xv, size, mean, lp, junk) ==
  LET dims == <<Len(xv), Len(mean), Len(size)>>
      Nmax == MaxOf(dims)
      r    == [i \in 1..Nmax |->
                 pdf_prop(At(xv, (i-1) % dims[1]), Rd(size, (i-1) % dims[2], junk[i]),
                          Rd(mean, (i-1) % dims[3], junk[i]))]
      p    == Values(r)
  IN  Result(IF lp THEN Map1(Log, p) ELSE p, Warnings(r),
             \E i \in 1..Nmax : (i-1) % dims[2] >= Len(size)
                                \/ (i-1) % dims[3] >= Len(mean))

cpp_pprop(xv, size, mean, lt, lp, junk) ==
  LET dims == <<Len(xv), Len(mean), Len(size)>>
      Nmax == MaxOf(dims)
      r    == [i \in 1..Nmax |->
                 cdf_prop(At(xv, (i-1) % dims[1]), Rd(size, (i-1) % dims[2], junk[i]),
                          Rd(mean, (i-1) % dims[3], junk[i]))]
      p    == Values(r)
      p1   == IF ~lt THEN Map1(OneMinus, p) ELSE p
  IN  Result(IF lp THEN Map1(Log, p1) ELSE p1, Warnings(r),
             \E i \in 1..Nmax : (i-1) % dims[2] >= Len(size)
                                \/ (i-1) % dims[3] >= Len(mean))

cpp_qprop(pv, size, mean, lt, lp, junk) ==
  LET dims == <<Len(pv), Len(mean), Len(size)>>
      Nmax == MaxOf(dims)
      pp0  == IF lp THEN Map1(Exp, pv) ELSE pv
      pp   == IF ~lt THEN Map1(OneMinus, pp0) ELSE pp0
      r    == [i \in 1..Nmax |->
                 invcdf_prop(At(pp, (i-1) % dims[1]), Rd(size, (i-1) % dims[2], junk[i]),
                             Rd(mean, (i-1) % dims[3], junk[i]))]
  IN  Result(Values(r), Warnings(r),
             \E i \in 1..Nmax : (i-1) % dims[2] >= Len(size)
                                \/ (i-1) % dims[3] >= Len(mean))

cpp_rprop(nn, size, mean, junk) ==
  LET dims == <<Len(mean), Len(size)>>
      r    == [i \in 1..nn |->
                 rng_prop(Rd(size, (i-1) % dims[1], junk[i]),
                          Rd(mean, (i-1) % dims[2], junk[i]))]
  IN  Result(Values(r), Warnings(r),
             \E i \in 1..nn : (i-1) % dims[1] >= Len(size)
                              \/ (i-1) % dims[2] >= Len(mean))

\* The junk a call may read when its vectors a and b are indexed by each
\* other's length: none when the lengths agree or only one element is made.
JunkFor(N, a, b) == IF N > 1 /\ Len(a) # Len(b) THEN Junk(N) ELSE {NoJunk(N)}

Call_dprop ==
  /\ fn = "cpp_dprop" /\ draws' = draws
  /\ \E junk \in JunkFor(OutLen(<<x>> \o par), par[1], par[2]) :
       Return(cpp_dprop(x, par[1], par[2], log_prob, junk))

Call_pprop ==
  /\ fn = "cpp_pprop" /\ draws' = draws
  /\ \E junk \in JunkFor(OutLen(<<x>> \o par), par[1], par[2]) :
       Return(cpp_pprop(x, par[1], par[2], lower_tail, log_prob, junk))

Call_qprop ==
  /\ fn = "cpp_qprop" /\ draws' = draws
  /\ \E junk \in JunkFor(OutLen(<<x>> \o par), par[1], par[2]) :
       Return(cpp_qprop(x, par[1], par[2], lower_tail, log_prob, junk))

Call_rprop ==
  /\ fn = "cpp_rprop" /\ draws' = draws
  /\ \E junk \in JunkFor(n, par[1], par[2]) :
       Return(cpp_rprop(n, par[1], par[2], junk))

C4_prop(i) ==
  LET xi   == Recycled(x, i)
      size == Recycled(par[1], i)
      mean == Recycled(par[2], i)
  IN  CASE fn = "cpp_dprop" -> PostD(pdf_prop(xi, size, mean).v)
        [] fn = "cpp_pprop" -> PostP(cdf_prop(xi, size, mean).v)
        [] fn = "cpp_qprop" -> invcdf_prop(PreQ(xi), size, mean).v

C4_rprop(i) == rng_prop(Recycled(par[1], i), Recycled(par[2], i)).v

\* C4: every re-parametrized beta driver reads size at i mod length(size)
\* and mean at i mod length(mean), each inside its own vector.
C4_PropRecycling ==
  pc = "done" =>
    CASE fn \in {"cpp_dprop", "cpp_pprop", "cpp_qprop"} ->
           ~oob /\ OutIs(OutLen(<<x>> \o par), C4_prop)
      [] fn = "cpp_rprop" -> ~oob /\ OutIs(n, C4_rprop)
      [] OTHER -> TRUE

\* The same of the calls whose size and mean have one length.
C4_SameLength == Len(par[1]) = Len(par[2]) => C4_PropRecycling

(***************************************************************************)
(* Gamma-Poisson                                                           *)
(***************************************************************************)
\* logpmf_gpois answering a query that is no integer with NaN.
Mut_logpmf_gpois(xx, alpha, beta) ==
  IF ISNAN(xx) \/ ISNAN(alpha) \/ ISNAN(beta) THEN KR(NA_REAL, FALSE)
  ELSE IF Le(alpha, Zero) \/ Le(beta, Zero) THEN KW(NAN, 1)
  ELSE IF ~isInteger(xx) THEN KR(NAN, FALSE)
  ELSE IF Lt(xx, Zero) \/ ~R_FINITE(xx) THEN KR(R_NegInf, FALSE)
  ELSE KR(Term("logpmf_gpois", <<xx, alpha, beta>>), FALSE)

logpmf_gpois(xx, alpha, beta) ==
  IF ISNAN(xx) \/ ISNAN(alpha) \/ ISNAN(beta) THEN KR(NA_REAL, FALSE)
  ELSE IF Le(alpha, Zero) \/ Le(beta, Zero) THEN KW(NAN, 1)
  ELSE IF ~isInteger(xx) \/ Lt(xx, Zero) \/ ~R_FINITE(xx) THEN KR(R_NegInf, FALSE)
  ELSE KR(Term("logpmf_gpois", <<xx, alpha, beta>>), FALSE)

\* The loop of cdf_gpois_table storing the term alone in entry j.
RECURSIVE Mut_gpois_loop(_, _, _, _, _, _, _, _, _)
Mut_gpois_loop(j, xmax, alpha, gax, xf, px, p, qa, tab) ==
  IF j > xmax THEN tab
  ELSE LET gax1 == Mul(gax, Sub(Add(Num(j, 1), alpha), One))
           xf1  == Mul(xf, Num(j, 1))
           px1  == Mul(px, p)
       IN  Mut_gpois_loop(j + 1, xmax, alpha, gax1, xf1, px1, p, qa,
                      Append(tab, Mul(Mul(Div(gax1, xf1), px1), qa)))

\* The loop of cdf_gpois_table from j to xmax.  The code carries sums of
\* logarithms; they are carried here as the products they are the logarithms
\* of: gax for exp(gax - ga), xf for exp(xf), px for exp(px), qa for exp(qa).
RECURSIVE gpois_loop(_, _, _, _, _, _, _, _, _)
gpois_loop(j, xmax, alpha, gax, xf, px, p, qa, tab) ==
  IF j > xmax THEN tab
  ELSE LET gax1 == Mul(gax, Sub(Add(Num(j, 1), alpha), One))
           xf1  == Mul(xf, Num(j, 1))
           px1  == Mul(px, p)
       IN  gpois_loop(j + 1, xmax, alpha, gax1, xf1, px1, p, qa,
                      Append(tab, Add(tab[j], Mul(Mul(Div(gax1, xf1), px1), qa))))

\* The table of cumulative probabilities 0..floor(xx), entry j at position
\* j + 1; its entries are read with TabAt.
cdf_gpois_table(xx, alpha, beta) ==
  LET xmax == ToInt(xx)
      p    == Div(beta, Add(One, beta))
      qa   == Pow(OneMinus(p), alpha)
      t0   == <<qa>>
      t1   == Append(t0, Add(t0[1], Mul(Mul(alpha, p), qa)))
  IN  IF xmax < 1 THEN t0
      ELSE IF xmax < 2 THEN t1
      ELSE gpois_loop(2, xmax, alpha, alpha, One, p, p, qa, t1)

TabAt(tab, j) == tab[j + 1]

rng_gpois(alpha, beta) ==
  IF ISNAN(alpha) \/ ISNAN(beta) THEN KR(NA_REAL, FALSE)
  ELSE IF Le(alpha, Zero) \/ Le(beta, Zero) THEN KW(NAN, 1)
  ELSE KR(Term("rpois", <<Term("rgamma", <<alpha, beta>>)>>), FALSE)

\* shared.h: the largest finite element of v, 0 when there is none above 0.
finite_max(v) ==
  LET S == {v[k] : k \in {h \in 1..Len(v) : R_FINITE(v[h]) /\ Gt(v[h], Zero)}}
  IN  IF S = {} THEN Zero ELSE CHOOSE m \in S : \A s \in S : Le(s, m)

cpp_dgpois(xv, alpha, beta, lp) ==
  LET dims == <<Len(xv), Len(alpha), Len(beta)>>
      Nmax == MaxOf(dims)
      r    == [i \in 1..Nmax |->
                 logpmf_gpois(At(xv, (i-1) % dims[1]), At(alpha, (i-1) % dims[2]),
                              At(beta, (i-1) % dims[3]))]
      p    == Values(r)
  IN  Result(IF ~lp THEN Map1(Exp, p) ELSE p, Warnings(r), FALSE)

cpp_pgpois(xv, alpha, beta, lt, lp) ==
  LET dims == <<Len(xv), Len(alpha), Len(beta)>>
      Nmax == MaxOf(dims)
      mx   == finite_max(xv)
      r    == [i \in 1..Nmax |->
                 LET xi == At(xv, (i-1) % dims[1])
                     ai == At(alpha, (i-1) % dims[2])
                     bi == At(beta, (i-1) % dims[3])
                 IN  IF ISNAN(xi) \/ ISNAN(ai) \/ ISNAN(bi) THEN KR(NA_REAL, FALSE)
                     ELSE IF Le(ai, Zero) \/ Le(bi, Zero) THEN KW(NAN, 1)
                     ELSE IF Lt(xi, Zero) THEN KR(Zero, FALSE)
                     ELSE IF xi = R_PosInf THEN KR(One, FALSE)
                     ELSE KR(TabAt(cdf_gpois_table(mx, ai, bi), ToInt(xi)), FALSE)]
      p    == Values(r)
      p1   == IF ~lt THEN Map1(OneMinus, p) ELSE p
  IN  Result(IF lp THEN Map1(Log, p1) ELSE p1, Warnings(r), FALSE)

cpp_rgpois(nn, alpha, beta) ==
  LET dims == <<Len(alpha), Len(beta)>>
      r    == [i \in 1..nn |->
                 rng_gpois(At(alpha, (i-1) % dims[1]), At(beta, (i-1) % dims[2]))]
  IN  Result(Values(r), Warnings(r), FALSE)

Call_dgpois ==
  /\ fn = "cpp_dgpois" /\ draws' = draws
  /\ Return(cpp_dgpois(x, par[1], par[2], log_prob))

Call_pgpois ==
  /\ fn = "cpp_pgpois" /\ draws' = draws
  /\ IF ModZero(<<x>> \o par) THEN Undefined(<<x>> \o par)
     ELSE Return(cpp_pgpois(x, par[1], par[2], lower_tail, log_prob))

Call_rgpois ==
  /\ fn = "cpp_rgpois" /\ draws' = draws
  /\ Return(cpp_rgpois(n, par[1], par[2]))

(***************************************************************************)
(* Power                                                                   *)
(***************************************************************************)
pdf_power(xx, alpha, beta) ==
  IF ISNAN(xx) \/ ISNAN(alpha) \/ ISNAN(beta) THEN KR(NA_REAL, FALSE)
  ELSE IF Le(xx, Zero) \/ Ge(xx, alpha) THEN KR(Zero, FALSE)
  ELSE KR(Term("pdf_power", <<xx, alpha, beta>>), FALSE)

cdf_power(xx, alpha, beta) ==
  IF ISNAN(xx) \/ ISNAN(alpha) \/ ISNAN(beta) THEN KR(NA_REAL, FALSE)
  ELSE IF Le(xx, Zero) THEN KR(Zero, FALSE)
  ELSE IF Ge(xx, alpha) THEN KR(One, FALSE)
  ELSE KR(Div(Pow(xx, beta), Pow(alpha, beta)), FALSE)

invcdf_power(p, alpha, beta) ==
  IF ISNAN(p) \/ ISNAN(alpha) \/ ISNAN(beta) THEN KR(NA_REAL, FALSE)
  ELSE IF Lt(p, Zero) \/ Gt(p, One) THEN KW(NAN, 1)
  ELSE KR(Mul(alpha, Pow(p, Div(One, beta))), FALSE)

rng_power(alpha, beta, uu) ==
  IF ISNAN(alpha) \/ ISNAN(beta) THEN KW(NA_REAL, 1)
  ELSE KR(Mul(alpha, Pow(uu, Div(One, beta))), FALSE)

\* log(beta) + log(x)*(beta-1) - log(alpha)*beta, the logarithm of pdf_power.
logpdf_power(xx, alpha, beta) ==
  IF ISNAN(xx) \/ ISNAN(alpha) \/ ISNAN(beta) THEN KR(NA_REAL, FALSE)
  ELSE IF Le(xx, Zero) \/ Ge(xx, alpha) THEN KR(R_NegInf, FALSE)
  ELSE KR(Log(Term("pdf_power", <<xx, alpha, beta>>)), FALSE)

\* logcdf_power with the open lower end x < 0.
Mut_logcdf_power(xx, alpha, beta) ==
  IF ISNAN(xx) \/ ISNAN(alpha) \/ ISNAN(beta) THEN KR(NA_REAL, FALSE)
  ELSE IF Lt(xx, Zero) THEN KR(R_NegInf, FALSE)
  ELSE IF Ge(xx, alpha) THEN KR(Zero, FALSE)
  ELSE KR(Log(Term("cdf_power", <<xx, alpha, beta>>)), FALSE)

\* log(x)*beta - log(alpha)*beta, the logarithm of cdf_power.
logcdf_power(xx, alpha, beta) ==
  IF ISNAN(xx) \/ ISNAN(alpha) \/ ISNAN(beta) THEN KR(NA_REAL, FALSE)
  ELSE IF Le(xx, Zero) THEN KR(R_NegInf, FALSE)
  ELSE IF Ge(xx, alpha) THEN KR(Zero, FALSE)
  ELSE KR(Log(Term("cdf_power", <<xx, alpha, beta>>)), FALSE)

cpp_dpower(xv, alpha, beta, lp) ==
  LET dims == <<Len(xv), Len(alpha), Len(beta)>>
      Nmax == MaxOf(dims)
      r    == [i \in 1..Nmax |->
                 logpdf_power(At(xv, (i-1) % dims[1]), At(alpha, (i-1) % dims[2]),
                              At(beta, (i-1) % dims[3]))]
      p    == Values(r)
  IN  Result(IF ~lp THEN Map1(Exp, p) ELSE p, Warnings(r), FALSE)

cpp_ppower(xv, alpha, beta, lt, lp) ==
  LET dims == <<Len(xv), Len(alpha), Len(beta)>>
      Nmax == MaxOf(dims)
      r    == [i \in 1..Nmax |->
                 logcdf_power(At(xv, (i-1) % dims[1]), At(alpha, (i-1) % dims[2]),
                              At(beta, (i-1) % dims[3]))]
      p    == Values(r)
      p1   == IF ~lt THEN Map1(OneMinus, p) ELSE p
  IN  Result(IF ~lp THEN Map1(Exp, p1) ELSE p1, Warnings(r), FALSE)

cpp_qpower(pv, alpha, beta, lt, lp) ==
  LET dims == <<Len(pv), Len(alpha), Len(beta)>>
      Nmax == MaxOf(dims)
      pp0  == IF lp THEN Map1(Exp, pv) ELSE pv
      pp   == IF ~lt THEN Map1(OneMinus, pp0) ELSE pp0
      r    == [i \in 1..Nmax |->
                 invcdf_power(At(pp, (i-1) % dims[1]), At(alpha, (i-1) % dims[2]),
                              At(beta, (i-1) % dims[3]))]
  IN  Result(Values(r), Warnings(r), FALSE)

cpp_rpower(nn, alpha, beta, us) ==
  LET dims == <<Len(alpha), Len(beta)>>
      r    == [i \in 1..nn |->
                 rng_power(At(alpha, (i-1) % dims[1]), At(beta, (i-1) % dims[2]), us[i])]
  IN  Result(Values(r), Warnings(r), FALSE)

Call_dpower ==
  /\ fn = "cpp_dpower" /\ draws' = draws
  /\ Return(cpp_dpower(x, par[1], par[2], log_prob))

Call_ppower ==
  /\ fn = "cpp_ppower" /\ draws' = draws
  /\ Return(cpp_ppower(x, par[1], par[2], lower_tail, log_prob))

Call_qpower ==
  /\ fn = "cpp_qpower" /\ draws' = draws
  /\ Return(cpp_qpower(x, par[1], par[2], lower_tail, log_prob))

Call_rpower ==
  /\ fn = "cpp_rpower"
  /\ \E us \in [1..n -> UDom] :
       draws' = us /\ Return(cpp_rpower(n, par[1], par[2], us))

(***************************************************************************)
(* Laplace: the kernels test sigma first and never test for NaN, so a NaN  *)
(* operand fails every comparison and carries through the arithmetic.      *)
(***************************************************************************)
pdf_laplace(xx, mu, sigma) ==
  IF Le(sigma, Zero) THEN KW(NAN, 1)
  ELSE IF ISNAN(sigma) \/ ISNAN(xx) \/ ISNAN(mu)
    THEN KR(NaNSum(<<sigma, xx, mu>>), FALSE)
  ELSE KR(Term("pdf_laplace", <<xx, mu, sigma>>), FALSE)

cdf_laplace(xx, mu, sigma) ==
  IF Le(sigma, Zero) THEN KW(NAN, 1)
  ELSE IF ISNAN(xx) \/ ISNAN(mu) \/ ISNAN(sigma)
    THEN KR(NaNSum(<<xx, mu, sigma>>), FALSE)
  ELSE IF Lt(xx, mu) THEN KR(Term("exp(z)/2", <<xx, mu, sigma>>), FALSE)
  ELSE KR(OneMinus(Term("exp(-z)/2", <<xx, mu, sigma>>)), FALSE)

invcdf_laplace(p, mu, sigma) ==
  IF Le(sigma, Zero) \/ Lt(p, Zero) \/ Gt(p, One) THEN KW(NAN, 1)
  ELSE IF ISNAN(mu) \/ ISNAN(sigma) \/ ISNAN(p)
    THEN KR(NaNSum(<<mu, sigma, p>>), FALSE)
  ELSE IF Lt(p, Half) THEN KR(Term("mu+sigma*log(2p)", <<p, mu, sigma>>), FALSE)
  ELSE KR(Term("mu-sigma*log(2(1-p))", <<p, mu, sigma>>), FALSE)

rng_laplace(mu, sigma) ==
  IF Le(sigma, Zero) THEN KW(NAN, 1)
  ELSE IF ISNAN(mu) \/ ISNAN(sigma) THEN KR(NaNSum(<<mu, sigma>>), FALSE)
  ELSE KR(Term("rng_laplace", <<mu, sigma>>), FALSE)

cpp_dlaplace(xv, mu, sigma, lp) ==
  LET nx   == Len(xv)
      nm   == Len(mu)
      ns   == Len(sigma)
      Nmax == MaxOf(<<nx, nm, ns>>)
      r    == [i \in 1..Nmax |->
                 pdf_laplace(At(xv, (i-1) % nx), At(mu, (i-1) % nm), At(sigma, (i-1) % ns))]
      p    == Values(r)
  IN  Result(IF lp THEN Map1(Log, p) ELSE p, Warnings(r), FALSE)

cpp_plaplace(xv, mu, sigma, lt, lp) ==
  LET nx   == Len(xv)
      nm   == Len(mu)
      ns   == Len(sigma)
      Nmax == MaxOf(<<nx, nm, ns>>)
      r    == [i \in 1..Nmax |->
                 cdf_laplace(At(xv, (i-1) % nx), At(mu, (i-1) % nm), At(sigma, (i-1) % ns))]
      p    == Values(r)
      p1   == IF ~lt THEN Map1(OneMinus, p) ELSE p
  IN  Result(IF lp THEN Map1(Log, p1) ELSE p1, Warnings(r), FALSE)

cpp_qlaplace(pv, mu, sigma, lt, lp) ==
  LET np   == Len(pv)
      nm   == Len(mu)
      ns   == Len(sigma)
      Nmax == MaxOf(<<np, nm, ns>>)
      pp0  == IF lp THEN Map1(Exp, pv) ELSE pv
      pp   == IF ~lt THEN Map1(OneMinus, pp0) ELSE pp0
      r    == [i \in 1..Nmax |->
                 invcdf_laplace(At(pp, (i-1) % np), At(mu, (i-1) % nm), At(sigma, (i-1) % ns))]
  IN  Result(Values(r), Warnings(r), FALSE)

cpp_rlaplace(nn, mu, sigma) ==
  LET nm   == Len(mu)
      ns   == Len(sigma)
      r    == [i \in 1..nn |->
                 rng_laplace(At(mu, (i-1) % nm), At(sigma, (i-1) % ns))]
  IN  Result(Values(r), Warnings(r), FALSE)

Call_dlaplace ==
  /\ fn = "cpp_dlaplace" /\ draws' = draws
  /\ Return(cpp_dlaplace(x, par[1], par[2], log_prob))

Call_plaplace ==
  /\ fn = "cpp_plaplace" /\ draws' = draws
  /\ Return(cpp_plaplace(x, par[1], par[2], lower_tail, log_prob))

Call_qlaplace ==
  /\ fn = "cpp_qlaplace" /\ draws' = draws
  /\ Return(cpp_qlaplace(x, par[1], par[2], lower_tail, log_prob))

Call_rlaplace ==
  /\ fn = "cpp_rlaplace" /\ draws' = draws
  /\ Return(cpp_rlaplace(n, par[1], par[2]))

(***************************************************************************)
(* SpecParam: the drivers whose kernels check the parameters themselves.   *)
(***************************************************************************)
PropXDom == {NA_REAL, Num(1, 4), Half}
PropSizeDom == {NA_REAL, Zero, One, Num(2, 1)}
PropMeanDom == {Num(1, 4), Half, Num(2, 1)}
PropPar == Vecs(PropSizeDom) \X Vecs(PropMeanDom)
GpoisXDom == {NA_REAL, Num(-1, 1), Zero, Num(2, 1), R_PosInf}
GpoisAlphaDom == {NA_REAL, Zero, One}
GpoisBetaDom == {Num(-1, 1), One}
GpoisPar == Vecs(GpoisAlphaDom) \X Vecs(GpoisBetaDom)
PowerXDom == {NA_REAL, Half, Num(2, 1)}
PowerAlphaDom == {NA_REAL, One}
PowerBetaDom == {One, Num(2, 1)}
PowerPar == Vecs(PowerAlphaDom) \X Vecs(PowerBetaDom)
LaplaceXDom == {NA_REAL, Zero, One}
LaplaceMuDom == {NA_REAL, Zero}
LaplaceSigmaDom == {NA_REAL, Num(-1, 1), One}
LaplacePar == Vecs(LaplaceMuDom) \X Vecs(LaplaceSigmaDom)

InitParam ==
  \/ InitD("cpp_dprop", PropXDom, PropPar)
  \/ InitP("cpp_pprop", PropXDom, PropPar)
  \/ InitQ("cpp_qprop", PDom, LogPDom, PropPar)
  \/ InitR("cpp_rprop", PropPar)
  \/ InitD("cpp_dgpois", GpoisXDom, GpoisPar)
  \/ InitP("cpp_pgpois", GpoisXDom, GpoisPar)
  \/ InitR("cpp_rgpois", GpoisPar)
  \/ InitD("cpp_dpower", PowerXDom, PowerPar)
  \/ InitP("cpp_ppower", PowerXDom, PowerPar)
  \/ InitQ("cpp_qpower", PDom, LogPDom, PowerPar)
  \/ InitR("cpp_rpower", PowerPar)
  \/ InitD("cpp_dlaplace", LaplaceXDom, LaplacePar)
  \/ InitP("cpp_plaplace", LaplaceXDom, LaplacePar)
  \/ InitQ("cpp_qlaplace", PDom, LogPDom, LaplacePar)
  \/ InitR("cpp_rlaplace", LaplacePar)

NextParam ==
  \/ Call_dprop \/ Call_pprop \/ Call_qprop \/ Call_rprop
  \/ Call_dgpois \/ Call_pgpois \/ Call_rgpois
  \/ Call_dpower \/ Call_ppower \/ Call_qpower \/ Call_rpower
  \/ Call_dlaplace \/ Call_plaplace \/ Call_qlaplace \/ Call_rlaplace

SpecParam == InitParam /\ [][NextParam]_vars

(***************************************************************************)
(* Warnings, missing values and the tail and log flags (SpecParam)         *)
(***************************************************************************)
\* An input of output element i of a gamma-Poisson call is missing.
GpoisMissing(i) ==
  \/ (fn # "cpp_rgpois" /\ ISNAN(Recycled(x, i)))
  \/ ISNAN(Recycled(par[1], i)) \/ ISNAN(Recycled(par[2], i))

\* The output elements of a gamma-Poisson call whose alpha or beta is
\* out of the domain, no input of the element being missing.
GpoisViolations ==
  {i \in 0..(Len(out) - 1) :
     /\ ~GpoisMissing(i)
     /\ Le(Recycled(par[1], i), Zero) \/ Le(Recycled(par[2], i), Zero)}

\* C5: a call with m >= 1 output elements out of the domain raises exactly
\* one warning, whatever m is (here the gamma-Poisson d and p drivers).
C5_OneWarning ==
  (pc = "done" /\ fn \in {"cpp_dgpois", "cpp_pgpois"} /\ GpoisViolations # {})
    => warnings = 1

\* What the gamma-Poisson drivers do: one warning for each such element.
C5_PerElement ==
  (pc = "done" /\ fn \in {"cpp_dgpois", "cpp_pgpois", "cpp_rgpois"})
    => warnings = Cardinality(GpoisViolations)

\* An input of output element i of a d*, p* or q* call is missing.
MissingAt(i) ==
  \/ ISNAN(Recycled(x, i))
  \/ \E k \in 1..Len(par) : ISNAN(Recycled(par[k], i))

\* C7: in the d*, p* and q* drivers an output element with a missing input
\* is missing, even when another input of the element is out of the domain
\* (here the gamma-Poisson, power and Laplace drivers).
C7_MissingFirst ==
  (pc = "done" /\ fn \in {"cpp_dgpois", "cpp_pgpois",
                          "cpp_dpower", "cpp_ppower", "cpp_qpower",
                          "cpp_dlaplace", "cpp_plaplace", "cpp_qlaplace"})
    => \A i \in 0..(Len(out) - 1) : MissingAt(i) => out[i+1] = NA_REAL

\* The same without the Laplace drivers.
C7_GpoisPower ==
  (pc = "done" /\ fn \in {"cpp_dgpois", "cpp_pgpois",
                          "cpp_dpower", "cpp_ppower", "cpp_qpower"})
    => \A i \in 0..(Len(out) - 1) : MissingAt(i) => out[i+1] = NA_REAL

\* The probability of element i of a cpp_qpower call is in [0, 1] or missing.
QpowerRegular(i) ==
  LET p == PreQ(Recycled(x, i)) IN ISNAN(p) \/ VALID_PROB(p)

\* C8: a call whose only irregular inputs are missing values raises no
\* warning, the r* generators included (here the power drivers, whose
\* parameters have no domain).
C8_SilentMissing ==
  (pc = "done" /\ fn \in {"cpp_dpower", "cpp_ppower", "cpp_qpower", "cpp_rpower"}
     /\ (fn = "cpp_qpower" => \A i \in 0..(Len(out) - 1) : QpowerRegular(i)))
    => warnings = 0

\* The same of the d*, p* and q* drivers alone.
C8_PowerDPQ ==
  (pc = "done" /\ fn \in {"cpp_dpower", "cpp_ppower", "cpp_qpower"}
     /\ (fn = "cpp_qpower" => \A i \in 0..(Len(out) - 1) : QpowerRegular(i)))
    => warnings = 0

C9_ppower(i) ==
  PostP(cdf_power(Recycled(x, i), Recycled(par[1], i), Recycled(par[2], i)).v)

\* C9: cpp_ppower computes the lower-tail probability F, replaces it by
\* 1 - F when lower_tail is false, then by its logarithm when log_prob is
\* true.
C9_TailThenLog ==
  (pc = "done" /\ fn = "cpp_ppower") => OutIs(OutLen(<<x>> \o par), C9_ppower)

\* The same of the lower-tail calls.
C9_LowerTail == lower_tail => C9_TailThenLog

C9_others(i) ==
  LET xi == Recycled(x, i)
      a  == Recycled(par[1], i)
      b  == Recycled(par[2], i)
  IN  CASE fn = "cpp_plaplace" -> PostP(cdf_laplace(xi, a, b).v)
        [] fn = "cpp_pgpois" ->
             PostP(IF ISNAN(xi) \/ ISNAN(a) \/ ISNAN(b) THEN NA_REAL
                   ELSE IF Le(a, Zero) \/ Le(b, Zero) THEN NAN
                   ELSE IF Lt(xi, Zero) THEN Zero
                   ELSE IF xi = R_PosInf THEN One
                   ELSE TabAt(cdf_gpois_table(finite_max(x), a, b), ToInt(xi)))

\* The order of C9 in cpp_plaplace and cpp_pgpois.
C9_LaplaceGpois ==
  (pc = "done" /\ fn \in {"cpp_plaplace", "cpp_pgpois"})
    => OutIs(OutLen(<<x>> \o par), C9_others)

(***************************************************************************)
(* SpecRayleigh: the Rayleigh drivers on missing and out-of-domain sigma.  *)
(***************************************************************************)
RayleighXDom == {NA_REAL, Half}
RayleighSigmaDom == {NA_REAL, Num(-1, 1), Zero, Num(2, 1)}
RayleighFullPar == {<<s>> : s \in Vecs(RayleighSigmaDom)}

\* The vectors of a cpp_drayleigh call: long enough for two elements out
\* of the domain next to a regular one.
MaxRayleighLen == 3
RayleighVecs(D) == UNION {[1..L -> D] : L \in 1..MaxRayleighLen}

InitRayleigh ==
  \/ /\ fn = "cpp_drayleigh" /\ x \in RayleighVecs(RayleighXDom)
     /\ par \in {<<s>> : s \in RayleighVecs(RayleighSigmaDom)} /\ n = 0
     /\ lower_tail = TRUE /\ log_prob \in BOOLEAN /\ Fresh
  \/ InitP("cpp_prayleigh", RayleighXDom, RayleighFullPar)
  \/ InitQ("cpp_qrayleigh", PDom, LogPDom, RayleighFullPar)
  \/ InitR("cpp_rrayleigh", RayleighFullPar)

NextRayleigh ==
  \/ Call_drayleigh \/ Call_prayleigh \/ Call_qrayleigh \/ Call_rrayleigh

SpecRayleigh == InitRayleigh /\ [][NextRayleigh]_vars

\* The output elements of a cpp_drayleigh call whose sigma is <= 0, x and
\* sigma of the element not missing.
RayleighViolations ==
  {i \in 0..(Len(out) - 1) :
     /\ ~ISNAN(Recycled(x, i)) /\ ~ISNAN(Recycled(par[1], i))
     /\ Le(Recycled(par[1], i), Zero)}

C6_drayleigh(i) == PostD(pdf_rayleigh(Recycled(x, i), Recycled(par[1], i)).v)

\* C6: in cpp_drayleigh every element whose sigma is <= 0 (x and sigma not
\* missing) is NaN, the other elements are still computed, and the call
\* raises one warning when some element violates the domain and none when
\* no element does.
C6_RayleighDomain ==
  (pc = "done" /\ fn = "cpp_drayleigh") =>
    /\ \A i \in RayleighViolations : out[i+1] = NAN
    /\ OutIs(OutLen(<<x>> \o par), C6_drayleigh)
    /\ warnings = IF RayleighViolations # {} THEN 1 ELSE 0

\* A call with two violating elements and a regular one.
C6_Witness ==
  /\ pc = "done" /\ fn = "cpp_drayleigh"
  /\ Cardinality(RayleighViolations) >= 2
  /\ \E i \in 1..Len(out) : out[i].k = "term"
  /\ warnings = 1

(***************************************************************************)
(* The probabilities of the quantile drivers                               *)
(***************************************************************************)
C10_qcat(i) ==
  qcat_elem(PreQ(Recycled(x, i)), Recycled(normalize_prob(par[1]), i).v,
            Len(par[1][1])).v

\* C10: the probability a q* driver hands to the inverse cdf for element i
\* is the caller's p[i mod length(p)], exponentiated when log_prob is true
\* and then complemented when lower_tail is false (here cpp_qcat).
C10_QuantileProb ==
  (pc = "done" /\ fn = "cpp_qcat") =>
    ~oob /\ OutIs(OutLen(<<x, par[1]>>), C10_qcat)

\* The same of the calls in which prob has no more rows than p has elements.
C10_EnoughP == Len(par[1]) <= Len(x) => C10_QuantileProb

(***************************************************************************)
(* Multinomial: x and prob are matrices, sequences of rows of one width.   *)
(***************************************************************************)
\* R::rbinom(nn, p): NaN for a size or a probability it cannot use, the
\* forced outcomes for nn = 0, p = 0 and p = 1, else the draw b.
rbinom(nn, p, b) ==
  IF ~R_FINITE(nn) \/ ~isInteger(nn) THEN NAN
  ELSE IF ~R_FINITE(p) \/ Lt(nn, Zero) \/ Lt(p, Zero) \/ Gt(p, One) THEN NAN
  ELSE IF nn = Zero \/ p = Zero THEN Zero
  ELSE IF p = One THEN nn
  ELSE Num(b, 1)

\* rbinom(nn, p) consults the generator and b is a count it can return.
RbinomDraws(nn, p) ==
  /\ R_FINITE(nn) /\ isInteger(nn) /\ R_FINITE(p)
  /\ Gt(nn, Zero) /\ Gt(p, Zero) /\ Lt(p, One)

\* Columns j..k of a row of cpp_rmnom: the draws of the categories before
\* the last, then the leftover.
RECURSIVE rmnom_draws(_, _, _, _, _, _)
rmnom_draws(prow, p_tot, j, size_left, sum_p, bs) ==
  IF j >= Len(prow) THEN <<size_left>>
  ELSE LET p_tmp == Div(prow[j], p_tot)
           xj    == rbinom(size_left, Div(p_tmp, sum_p), bs[j])
       IN  <<xj>> \o rmnom_draws(prow, p_tot, j + 1, Sub(size_left, xj),
                                 Sub(sum_p, p_tmp), bs)

\* Every draw of bs that the row consults is within 0..size_left, and the
\* draws it does not consult are 0.
RECURSIVE DrawsInRange(_, _, _, _, _, _)
DrawsInRange(prow, p_tot, j, size_left, sum_p, bs) ==
  IF j >= Len(prow) THEN TRUE
  ELSE LET p_tmp == Div(prow[j], p_tot)
           pj    == Div(p_tmp, sum_p)
           xj    == rbinom(size_left, pj, bs[j])
       IN  /\ IF RbinomDraws(size_left, pj) THEN Le(Num(bs[j], 1), size_left)
              ELSE bs[j] = 0
           /\ DrawsInRange(prow, p_tot, j + 1, Sub(size_left, xj),
                           Sub(sum_p, p_tmp), bs)

\* The first loop of a row: a missing or negative weight.
mnom_bad_row(prow) ==
  \E j \in 1..Len(prow) : ISNAN(prow[j]) \/ Lt(prow[j], Zero)

\* One row of cpp_rmnom.
rmnom_row(size_i, prow, bs) ==
  IF mnom_bad_row(prow) \/ ISNAN(size_i) \/ Lt(size_i, Zero) \/ ~isInteger(size_i)
    THEN KW([j \in 1..Len(prow) |-> NA_REAL], 1)
  ELSE KR(rmnom_draws(prow, RowSum(prow), 1, size_i, One, bs), FALSE)

cpp_rmnom(nn, size, prob, bss) ==
  LET dims == <<Len(size), Len(prob)>>
      r    == [i \in 1..nn |->
                 rmnom_row(At(size, (i-1) % dims[1]), At(prob, (i-1) % dims[2]), bss[i])]
  IN  Result(Values(r), Warnings(r), FALSE)

\* The counts a binomial draw may return.
MaxSize == 2

\* The draws bs of one row: within range where the row consults them, 0
\* where it makes no draw.
RowDraws(size_i, prow, bs) ==
  IF mnom_bad_row(prow) \/ ISNAN(size_i) \/ Lt(size_i, Zero) \/ ~isInteger(size_i)
    THEN \A j \in 1..(Len(prow) - 1) : bs[j] = 0
  ELSE DrawsInRange(prow, RowSum(prow), 1, size_i, One, bs)

Call_rmnom ==
  /\ fn = "cpp_rmnom"
  /\ \E bss \in [1..n -> [1..(Len(par[2][1]) - 1) -> 0..MaxSize]] :
       /\ \A i \in 1..n :
            RowDraws(Recycled(par[1], i - 1), Recycled(par[2], i - 1), bss[i])
       /\ draws' = bss
       /\ Return(cpp_rmnom(n, par[1], par[2], bss))

(***************************************************************************)
(* SpecRmnom: the multinomial generator.                                   *)
(***************************************************************************)
MnomSizeDom == {NA_REAL, Num(-1, 1), Half, One, Num(2, 1)}
MnomRows1 == {<<One>>, <<Num(2, 1)>>}
MnomRows2 == {<<One, One>>, <<One, Zero>>, <<Zero, One>>, <<NA_REAL, One>>}
MnomRows3 == {<<One, One, Num(2, 1)>>, <<One, Zero, Zero>>, <<Zero, One, Zero>>,
              <<Num(-1, 1), One, One>>}
MnomProbs == Vecs(MnomRows1) \cup Vecs(MnomRows2) \cup Vecs(MnomRows3)
MaxRows == 2

InitRmnom ==
  /\ fn = "cpp_rmnom" /\ x = <<>> /\ par \in Vecs(MnomSizeDom) \X MnomProbs
  /\ n \in 1..MaxRows /\ lower_tail = TRUE /\ log_prob = FALSE /\ Fresh

NextRmnom == Call_rmnom

SpecRmnom == InitRmnom /\ [][NextRmnom]_vars

\* Row i of a cpp_rmnom call has a valid size and a valid probability row.
RmnomValid(i) ==
  LET size_i == Recycled(par[1], i)
      prow   == Recycled(par[2], i)
  IN  /\ ~ISNAN(size_i) /\ Ge(size_i, Zero) /\ isInteger(size_i)
      /\ ~mnom_bad_row(prow) /\ Gt(RowSum(prow), Zero)

\* The sum of the first j counts of a row.
RECURSIVE CountSum(_, _)
CountSum(row, j) == IF j = 0 THEN Zero ELSE Add(CountSum(row, j - 1), row[j])

C11_row(i) ==
  LET size_i == Recycled(par[1], i)
      row    == out[i + 1]
      k      == Len(row)
  IN  /\ CountSum(row, k) = size_i
      /\ row[k] = Sub(size_i, CountSum(row, k - 1))
      /\ \A j \in 0..k : Le(CountSum(row, j), size_i)

\* C11: every row of cpp_rmnom with a valid size and a valid probability
\* row sums exactly to its size, the last category is the leftover, and
\* the remaining size is never negative, whatever the binomial draws are.
C11_RowSums ==
  (pc = "done" /\ fn = "cpp_rmnom") =>
    \A i \in 0..(n - 1) : RmnomValid(i) => C11_row(i)

\* Row i still has probability mass left for its last two categories.
MassLeft(i) ==
  LET prow == Recycled(par[2], i)
      k    == Len(prow)
  IN  k <= 2 \/ Lt(CountSum(prow, k - 2), RowSum(prow))

\* The same of the rows whose mass is not used up before the last two
\* categories.
C11_MassLeft ==
  (pc = "done" /\ fn = "cpp_rmnom") =>
    \A i \in 0..(n - 1) : (RmnomValid(i) /\ MassLeft(i)) => C11_row(i)

(***************************************************************************)
(* Multinomial mass function                                               *)
(***************************************************************************)
\* The first loop of an element of cpp_dmnom, from column j on: it stops
\* at the first missing weight or count.
RECURSIVE dmnom_scan(_, _, _, _, _)
dmnom_scan(xrow, prow, j, wp, pt) ==
  IF j > Len(prow)
    THEN [missings |-> FALSE, wrong_param |-> wp, p_tot |-> pt]
  ELSE IF ISNAN(prow[j]) \/ ISNAN(xrow[j])
    THEN [missings |-> TRUE, wrong_param |-> wp, p_tot |-> pt]
  ELSE dmnom_scan(xrow, prow, j + 1, wp \/ Lt(prow[j], Zero), Add(pt, prow[j]))

\* The second loop: a count that is negative or no integer is not summed.
RECURSIVE dmnom_sum_x(_, _)
dmnom_sum_x(xrow, j) ==
  IF j = 0 THEN Zero
  ELSE IF Lt(xrow[j], Zero) \/ ~isInteger(xrow[j]) THEN dmnom_sum_x(xrow, j - 1)
  ELSE Add(dmnom_sum_x(xrow, j - 1), xrow[j])

\* Element i of cpp_dmnom before the exponential: the logarithm of the mass.
Mut_dmnom_elem(xrow, size_i, prow) ==
  LET s       == dmnom_scan(xrow, prow, 1, FALSE, Zero)
      wrong_x == \E j \in 1..Len(xrow) : Lt(xrow[j], Zero) \/ ~isInteger(xrow[j])
      sum_x   == dmnom_sum_x(xrow, Len(xrow))
  IN  IF s.wrong_param \/ Lt(size_i, Zero) \/ (~ISNAN(size_i) /\ ~isInteger(size_i))
        THEN KW(NAN, 1)
      ELSE IF s.missings \/ ISNAN(size_i) THEN KR(NA_REAL, FALSE)
      ELSE IF wrong_x \/ Lt(sum_x, Zero) \/ sum_x # size_i THEN KR(R_NegInf, FALSE)
      ELSE KR(Log(Term("dmnom", xrow \o <<size_i>> \o prow)), FALSE)

dmnom_elem(xrow, size_i, prow) ==
  LET s       == dmnom_scan(xrow, prow, 1, FALSE, Zero)
      wrong_x == \E j \in 1..Len(xrow) : Lt(xrow[j], Zero) \/ ~isInteger(xrow[j])
      sum_x   == dmnom_sum_x(xrow, Len(xrow))
  IN  IF s.missings \/ ISNAN(size_i) THEN KR(NA_REAL, FALSE)
      ELSE IF s.wrong_param \/ Lt(size_i, Zero) \/ ~isInteger(size_i)
        THEN KW(NAN, 1)
      ELSE IF wrong_x \/ Lt(sum_x, Zero) \/ sum_x # size_i THEN KR(R_NegInf, FALSE)
      ELSE KR(Log(Term("dmnom", xrow \o <<size_i>> \o prow)), FALSE)

\* A call ended by Rcpp::stop returns nothing.
Stopped == [out |-> <<>>, warnings |-> 0, oob |-> FALSE, stop |-> TRUE]

\* cpp_dmnom stopping only when x has more columns than prob.
Mut_cpp_dmnom(xm, size, prob, lp) ==
  LET dims == <<Len(xm), Len(size), Len(prob)>>
      Nmax == MaxOf(dims)
      m    == Len(xm[1])
      k    == Len(prob[1])
      r    == [i \in 1..Nmax |->
                 dmnom_elem(At(xm, (i-1) % dims[1]), At(size, (i-1) % dims[2]),
                            SubSeq(At(prob, (i-1) % dims[3]), 1, m))]
      p    == Values(r)
  IN  IF m > k THEN Stopped
      ELSE [out |-> IF ~lp THEN Map1(Exp, p) ELSE p, warnings |-> Warnings(r),
            oob |-> FALSE, stop |-> FALSE]

cpp_dmnom(xm, size, prob, lp) ==
  LET dims == <<Len(xm), Len(size), Len(prob)>>
      Nmax == MaxOf(dims)
      m    == Len(xm[1])
      k    == Len(prob[1])
      r    == [i \in 1..Nmax |->
                 dmnom_elem(At(xm, (i-1) % dims[1]), At(size, (i-1) % dims[2]),
                            At(prob, (i-1) % dims[3]))]
      p    == Values(r)
  IN  IF m # k THEN Stopped
      ELSE [out |-> IF ~lp THEN Map1(Exp, p) ELSE p, warnings |-> Warnings(r),
            oob |-> FALSE, stop |-> FALSE]

\* The driver threw: the call ends in an R error, with no value.
Throw ==
  /\ pc = "call" /\ pc' = "error"
  /\ UNCHANGED <<fn, x, par, n, lower_tail, log_prob, out, warnings, oob>>
  /\ UNCHANGED loopvars

Call_dmnom ==
  /\ fn = "cpp_dmnom" /\ draws' = draws
  /\ LET r == cpp_dmnom(x, par[1], par[2], log_prob)
     IN  IF r.stop THEN Throw ELSE Return(r)

(***************************************************************************)
(* SpecDmnom                                                               *)
(***************************************************************************)
DmnomSizeDom == {NA_REAL, Num(-1, 1), Half, One}
DmnomSizes == [1..1 -> DmnomSizeDom] \cup [1..2 -> DmnomSizeDom]
DmnomX1 == {<<One>>}
DmnomX2 == {<<One, Zero>>, <<NA_REAL, Zero>>, <<Half, Half>>, <<Num(-1, 1), Num(2, 1)>>,
            <<One, One>>}
DmnomP1 == {<<One>>}
DmnomP2 == {<<One, One>>, <<NA_REAL, One>>, <<Num(-1, 1), One>>}

InitDmnom ==
  /\ fn = "cpp_dmnom" /\ x \in Vecs(DmnomX1) \cup Vecs(DmnomX2)
  /\ par \in DmnomSizes \X (Vecs(DmnomP1) \cup Vecs(DmnomP2))
  /\ n = 0 /\ lower_tail = TRUE /\ log_prob \in BOOLEAN /\ Fresh

NextDmnom == Call_dmnom

SpecDmnom == InitDmnom /\ [][NextDmnom]_vars

\* The outcome of element i of a cpp_dmnom call by the order of the cases.
C12_dmnom(i) ==
  LET xrow   == Recycled(x, i)
      size_i == Recycled(par[1], i)
      prow   == Recycled(par[2], i)
      cols   == 1..Len(prow)
  IN  IF (\E j \in cols : ISNAN(prow[j]) \/ ISNAN(xrow[j])) \/ ISNAN(size_i)
        THEN NA_REAL
      ELSE IF (\E j \in cols : Lt(prow[j], Zero))
              \/ Lt(size_i, Zero) \/ ~isInteger(size_i)
        THEN NAN
      ELSE IF (\E j \in cols : Lt(xrow[j], Zero) \/ ~isInteger(xrow[j]))
              \/ CountSum(xrow, Len(xrow)) # size_i
        THEN (IF log_prob THEN R_NegInf ELSE Zero)
      ELSE PostD(Term("dmnom", xrow \o <<size_i>> \o prow))

\* C12: an element of cpp_dmnom is missing when its probability row, count
\* row or size has a missing value; otherwise NaN when a weight is negative
\* or the size is negative or no integer; otherwise 0 (minus infinity in
\* log) when the counts are not non-negative integers summing to size; only
\* otherwise the multinomial formula.
C12_DmnomPriority ==
  (pc = "done" /\ fn = "cpp_dmnom") => OutIs(OutLen(<<x>> \o par), C12_dmnom)

\* An element with a missing count and a negative weight is missing, and an
\* element with a negative weight and wrong counts is NaN.
C12_Witness ==
  /\ pc = "done" /\ fn = "cpp_dmnom" /\ Len(out) = 2
  /\ Len(x[1]) = 2 /\ Len(par[2][1]) = 2
  /\ \E j \in 1..2 : ISNAN(x[1][j])
  /\ \E j \in 1..2 : Lt(Recycled(par[2], 0)[j], Zero)
  /\ out[1] = NA_REAL
  /\ \A j \in 1..2 : ~ISNAN(Recycled(x, 1)[j]) /\ ~ISNAN(Recycled(par[2], 1)[j])
  /\ \E j \in 1..2 : Lt(Recycled(par[2], 1)[j], Zero)
  /\ ~isInteger(Recycled(x, 1)[1])
  /\ ~ISNAN(Recycled(par[1], 1))
  /\ out[2] = NAN

\* C13: a cpp_dmnom call whose x and prob differ in their number of columns
\* ends in an error, with no output element and no warning.
C13_ColumnMismatch ==
  (fn = "cpp_dmnom" /\ pc # "call" /\ Len(x[1]) # Len(par[2][1])) =>
    pc = "error" /\ out = <<>> /\ warnings = 0

\* A stopped call whose x is narrower than prob and has a missing count.
C13_Witness ==
  /\ fn = "cpp_dmnom" /\ pc = "error" /\ out = <<>>
  /\ Len(x[1]) < Len(par[2][1])
  /\ Len(x) = 2 /\ Len(par[2]) = 2

(***************************************************************************)
(* SpecEmpty: calls with arguments of length 0.                            *)
(***************************************************************************)
Vecs0(D) == UNION {[1..L -> D] : L \in 0..MaxLen}

InitEmpty ==
  \/ /\ fn = "cpp_dkumar" /\ x \in Vecs0(XDom) /\ par \in Vecs0(ADom) \X Vecs0(BDom)
     /\ n = 0 /\ lower_tail = TRUE /\ log_prob \in BOOLEAN /\ Fresh
  \/ /\ fn = "cpp_dbern" /\ x \in Vecs0(BernXDom) /\ par \in {<<s>> : s \in Vecs0(ProbDom)}
     /\ n = 0 /\ lower_tail = TRUE /\ log_prob \in BOOLEAN /\ Fresh
  \/ /\ fn = "cpp_pgpois" /\ x \in Vecs0(GpoisXDom)
     /\ par \in Vecs0(GpoisAlphaDom) \X Vecs0(GpoisBetaDom)
     /\ n = 0 /\ lower_tail \in BOOLEAN /\ log_prob \in BOOLEAN /\ Fresh

NextEmpty == Call_dkumar \/ Call_dbern \/ Call_pgpois

SpecEmpty == InitEmpty /\ [][NextEmpty]_vars

\* C14: a call with an argument of length 0 next to one of length >= 1
\* returns a result of length 0 or ends in an error; it takes no index
\* modulo 0 and reads no element of the empty argument.
C14_EmptyArgument ==
  (pc # "call" /\ \E k \in 1..Len(<<x>> \o par) : Len((<<x>> \o par)[k]) = 0) =>
    \/ pc = "done" /\ Len(out) = 0 /\ ~oob
    \/ pc = "error"

\* A call whose arguments are all empty returns the empty vector.
C14_AllEmpty ==
  (pc # "call" /\ \A k \in 1..Len(<<x>> \o par) : Len((<<x>> \o par)[k]) = 0) =>
    pc = "done" /\ Len(out) = 0 /\ ~oob

\* A call with no empty argument neither traps nor reads outside a vector.
C14_NoEmpty ==
  (pc # "call" /\ \A k \in 1..Len(<<x>> \o par) : Len((<<x>> \o par)[k]) > 0) =>
    pc = "done" /\ Len(out) > 0 /\ ~oob

(***************************************************************************)
(* SpecCdf: the cdf drivers at and beyond the ends of the support.         *)
(***************************************************************************)
CdfXDom == {Num(-1, 1), Zero, Half, One, Num(2, 1), R_PosInf}
CdfKumarPar == Vecs({Zero, Num(2, 1)}) \X Vecs({One})
CdfPowerPar == Vecs({NA_REAL, One}) \X Vecs({Num(2, 1)})
CdfBernPar == {<<s>> : s \in Vecs({Num(1, 4), Num(2, 1)})}
CdfGpoisPar == Vecs({Zero, One}) \X Vecs({One})
\* size, prob and pi of cpp_pzib, prob and pi of one length.
CdfZibPar ==
  {p \in Vecs({One}) \X Vecs({Half}) \X Vecs({NA_REAL, Half}) : Len(p[2]) = Len(p[3])}

InitCdf ==
  \/ InitP("cpp_pkumar", CdfXDom, CdfKumarPar)
  \/ InitP("cpp_ppower", CdfXDom, CdfPowerPar)
  \/ InitP("cpp_pbern", CdfXDom, CdfBernPar)
  \/ InitP("cpp_pgpois", CdfXDom, CdfGpoisPar)
  \/ InitP("cpp_pzib", CdfXDom, CdfZibPar)

NextCdf == Call_pkumar \/ Call_ppower \/ Call_pbern \/ Call_pgpois \/ Call_pzib

SpecCdf == InitCdf /\ [][NextCdf]_vars

\* Parameter k of output element i.
ParAt(k, i) == Recycled(par[k], i)

\* The parameters of output element i are valid and nothing is missing.
CdfValid(i) ==
  /\ ~ISNAN(Recycled(x, i)) /\ \A k \in 1..Len(par) : ~ISNAN(ParAt(k, i))
  /\ CASE fn = "cpp_pkumar" -> Gt(ParAt(1, i), Zero) /\ Gt(ParAt(2, i), Zero)
       [] fn = "cpp_ppower" -> TRUE
       [] fn = "cpp_pbern" -> VALID_PROB(ParAt(1, i))
       [] fn = "cpp_pgpois" -> Gt(ParAt(1, i), Zero) /\ Gt(ParAt(2, i), Zero)
       [] fn = "cpp_pzib" -> /\ Ge(ParAt(1, i), Zero) /\ isInteger(ParAt(1, i))
                             /\ VALID_PROB(ParAt(2, i)) /\ VALID_PROB(ParAt(3, i))

\* x of output element i is where the cdf is 0, and where it is 1.
CdfBelow(i) ==
  IF fn = "cpp_ppower" THEN Le(Recycled(x, i), Zero) ELSE Lt(Recycled(x, i), Zero)

CdfAbove(i) ==
  CASE fn \in {"cpp_pkumar", "cpp_pbern"} -> Ge(Recycled(x, i), One)
    [] fn = "cpp_ppower" -> Ge(Recycled(x, i), ParAt(1, i))
    [] fn \in {"cpp_pgpois", "cpp_pzib"} -> Recycled(x, i) = R_PosInf

\* C15: with valid parameters, lower tail and no log, the Kumaraswamy and
\* Bernoulli cdfs are 0 for x < 0 and 1 for x >= 1, the power cdf is 0 for
\* x <= 0 and 1 for x >= alpha, and the zero-inflated binomial and
\* gamma-Poisson cdfs are 0 for x < 0 and 1 at +infinity.
C15_CdfBoundaries ==
  (pc = "done" /\ lower_tail /\ ~log_prob
     /\ fn \in {"cpp_pkumar", "cpp_ppower", "cpp_pbern", "cpp_pgpois", "cpp_pzib"}) =>
    \A i \in 0..(Len(out) - 1) :
      CdfValid(i) => /\ CdfBelow(i) => out[i+1] = Zero
                     /\ CdfAbove(i) => out[i+1] = One

\* The power cdf at both ends of its support, x = 0 and x = alpha.
C15_Witness ==
  /\ pc = "done" /\ fn = "cpp_ppower" /\ lower_tail /\ ~log_prob
  /\ Len(x) = 2 /\ Len(par[1]) = 1 /\ ~ISNAN(par[1][1])
  /\ x[1] = Zero /\ x[2] = par[1][1]
  /\ out = <<Zero, One>>

(***************************************************************************)
(* SpecMass: the mass functions off the non-negative integers.             *)
(***************************************************************************)
MassXDom == {NA_REAL, Num(-1, 1), Half, One}
MassZibPar == Vecs({One}) \X Vecs({Half, Num(2, 1)}) \X Vecs({Half})
MassGpoisPar == Vecs({Zero, One}) \X Vecs({One})

InitMass ==
  \/ InitD("cpp_dzib", MassXDom, MassZibPar)
  \/ InitD("cpp_dgpois", MassXDom, MassGpoisPar)
  \/ InitD("cpp_dcat", MassXDom, {p \in CatPar : Len(p[1]) = 1})
  \/ /\ fn = "cpp_dmnom" /\ x \in Vecs(DmnomX2)
     /\ par \in DmnomSizes \X Vecs(DmnomP2)
     /\ n = 0 /\ lower_tail = TRUE /\ log_prob \in BOOLEAN /\ Fresh

NextMass == Call_dzib \/ Call_dgpois \/ Call_dcat \/ Call_dmnom

SpecMass == InitMass /\ [][NextMass]_vars

\* A weight row is valid: nothing missing or negative, a positive total.
ValidRow(row) ==
  /\ \A j \in 1..Len(row) : ~ISNAN(row[j]) /\ Ge(row[j], Zero)
  /\ Gt(CountSum(row, Len(row)), Zero)

\* The parameters of output element i are valid and not missing.
MassValid(i) ==
  CASE fn = "cpp_dzib" -> /\ \A k \in 1..3 : ~ISNAN(ParAt(k, i))
                          /\ Ge(ParAt(1, i), Zero)
                          /\ VALID_PROB(ParAt(2, i)) /\ VALID_PROB(ParAt(3, i))
    [] fn = "cpp_dgpois" -> Gt(ParAt(1, i), Zero) /\ Gt(ParAt(2, i), Zero)
    [] fn = "cpp_dcat" -> ValidRow(ParAt(1, i))
    [] fn = "cpp_dmnom" -> /\ Ge(ParAt(1, i), Zero) /\ isInteger(ParAt(1, i))
                           /\ ValidRow(ParAt(2, i))

\* A query that is negative or no integer (and not missing).
OffSupport(q) == ~ISNAN(q) /\ (Lt(q, Zero) \/ ~isInteger(q))

\* The query of output element i is off the support.
MassOff(i) ==
  IF fn = "cpp_dmnom"
    THEN LET xrow == Recycled(x, i)
         IN  /\ \A j \in 1..Len(xrow) : ~ISNAN(xrow[j])
             /\ \E j \in 1..Len(xrow) : OffSupport(xrow[j])
  ELSE OffSupport(Recycled(x, i))

\* C16: for the zero-inflated binomial, gamma-Poisson, categorical and
\* multinomial mass functions with valid parameters a query that is negative
\* or no integer has mass 0 (minus infinity in log), and the call returns.
C16_OffSupportZero ==
  (pc # "call" /\ fn \in {"cpp_dzib", "cpp_dgpois", "cpp_dcat", "cpp_dmnom"}) =>
    /\ pc = "done"
    /\ \A i \in 0..(Len(out) - 1) :
         (MassValid(i) /\ MassOff(i)) =>
            out[i+1] = IF log_prob THEN R_NegInf ELSE Zero

\* A multinomial element with counts 1/2, 1/2 and one with counts -1, 2.
C16_Witness ==
  /\ pc = "done" /\ fn = "cpp_dmnom" /\ ~log_prob /\ Len(out) = 2 /\ Len(x) = 2
  /\ MassValid(0) /\ MassValid(1)
  /\ x[1] = <<Half, Half>> /\ x[2] = <<Num(-1, 1), Num(2, 1)>>
  /\ out = <<Zero, Zero>>

(***************************************************************************)
(* SpecQzib: the zero-inflated binomial quantile, prob and pi of one       *)
(* length.                                                                 *)
(***************************************************************************)
QzibPDom == {NA_REAL, Num(1, 4), Num(3, 4), One}
QzibPar ==
  {p \in Vecs({One, Num(2, 1)}) \X Vecs({Half}) \X Vecs({Zero, Half, One}) :
     Len(p[2]) = Len(p[3])}

InitQzib == InitQ("cpp_qzib", QzibPDom, LogPDom, QzibPar)

NextQzib == Call_qzib

SpecQzib == InitQzib /\ [][NextQzib]_vars

\* The target probability of output element i, in [0, 1].
QzibTarget(i) == PreQ(Recycled(x, i))

C17_qzib(i) ==
  LET pp == QzibTarget(i)
      pi == ParAt(3, i)
  IN  IF Lt(pp, pi) THEN Zero
      ELSE qbinom(Div(Sub(pp, pi), Sub(One, pi)), ParAt(1, i), ParAt(2, i))

\* C17: for non-missing inputs invcdf_zib returns 0 when the target
\* probability pp is below pi, and else the binomial(n, p) quantile of
\* (pp - pi)/(1 - pi).
C17_ZibQuantile ==
  (pc = "done" /\ fn = "cpp_qzib") =>
    \A i \in 0..(Len(out) - 1) :
      (~ISNAN(QzibTarget(i)) /\ VALID_PROB(QzibTarget(i))) => out[i+1] = C17_qzib(i)

\* With pi = 1/2, a target 1/4 below pi and a target 3/4 rescaled to 1/2.
C17_Witness ==
  /\ pc = "done" /\ fn = "cpp_qzib" /\ lower_tail /\ ~log_prob
  /\ x = <<Num(1, 4), Num(3, 4)>> /\ par[3] = <<Half>>
  /\ out[1] = Zero
  /\ out[2] = Term("qbinom", <<Half, par[1][1], par[2][1]>>)

\* ---------------------------------------------------------------------
\* The categorical distribution function as a partial sum.
\* ---------------------------------------------------------------------

\* cpp_pcat calls in which prob has no more rows than x has elements.
PcatPar == CatPar

InitPcat ==
  /\ InitP("cpp_pcat", CatXDom, PcatPar)
  /\ Len(par[1]) <= Len(x)

NextPcat == Call_pcat

SpecPcat == InitPcat /\ [][NextPcat]_vars

\* The row of prob element i (from 0) is computed against.
PcatRow(i) == Recycled(par[1], i)

PcatRowValid(i) ==
  \A j \in 1..Len(PcatRow(i)) : ~ISNAN(PcatRow(i)[j]) /\ ~Lt(PcatRow(i)[j], Zero)

\* The sum of the probabilities of categories 1..c of the row of element i:
\* each weight over the sum of the row's weights.
RECURSIVE PcatMass(_, _)
PcatMass(i, c) ==
  IF c = 0 THEN Zero
  ELSE Add(PcatMass(i, c - 1), Div(PcatRow(i)[c], RowSum(PcatRow(i))))

\* An integer query in 1..k.
PcatQuery(i) ==
  /\ ~ISNAN(Recycled(x, i))
  /\ Recycled(x, i) \in {Num(c, 1) : c \in 1..Len(PcatRow(i))}

\* C18: for an integer query x in 1..k and a valid row of k categories,
\* cpp_pcat (lower tail, no log) returns the sum of the normalized row's
\* probabilities of categories 1..x inclusive; at x = k this is 1, and over
\* two queries against one row the result is non-decreasing in x.
C18_PcatPartialSum ==
  (pc = "done" /\ fn = "cpp_pcat" /\ lower_tail /\ ~log_prob) =>
    \A i \in 0..(Len(out) - 1) :
      (PcatQuery(i) /\ PcatRowValid(i)) =>
        /\ out[i+1] = PcatMass(i, Recycled(x, i).n)
        /\ (Recycled(x, i).n = Len(PcatRow(i))) => out[i+1] = One
        /\ \A h \in 0..(Len(out) - 1) :
             (/\ PcatQuery(h) /\ PcatRow(h) = PcatRow(i)
              /\ Le(Recycled(x, i), Recycled(x, h))) => Le(out[i+1], out[h+1])

C18_Witness ==
  /\ pc = "done" /\ fn = "cpp_pcat" /\ lower_tail /\ ~log_prob
  /\ x = <<Num(2, 1), Num(3, 1)>>
  /\ par[1] = << <<One, Num(2, 1), One>> >>
  /\ out = <<Num(3, 4), One>>

\* ---------------------------------------------------------------------
\* The quantile kernels applied to the values of the cdf kernels.
\* ---------------------------------------------------------------------

\* The quantile kernel Q at the value of the cdf kernel F, element by element
\* over the recycled arguments vs (vs[1] the queries).
RoundTrip(F(_), Q(_, _), vs) ==
  LET r == [i \in 1..OutLen(vs) |->
              LET a == [k \in 1..Len(vs) |-> Recycled(vs[k], i - 1)]
                  c == F(a)
                  q == Q(c.v, a)
              IN  [v |-> q.v, w |-> c.w \/ q.w, d |-> c.d + q.d]]
  IN  Result(Values(r), Warnings(r), FALSE)

kumar_cdf(a) == cdf_kumar(a[1], a[2], a[3])
kumar_invcdf(p, a) == invcdf_kumar(p, a[2], a[3])
rayleigh_cdf(a) == cdf_rayleigh(a[1], a[2])
rayleigh_invcdf(p, a) == invcdf_rayleigh(p, a[2])
power_cdf(a) == cdf_power(a[1], a[2], a[3])
power_invcdf(p, a) == invcdf_power(p, a[2], a[3])

RoundTrip_kumar ==
  /\ fn = "kumar" /\ draws' = draws
  /\ Return(RoundTrip(kumar_cdf, kumar_invcdf, <<x>> \o par))

RoundTrip_rayleigh ==
  /\ fn = "rayleigh" /\ draws' = draws
  /\ Return(RoundTrip(rayleigh_cdf, rayleigh_invcdf, <<x>> \o par))

RoundTrip_power ==
  /\ fn = "power" /\ draws' = draws
  /\ Return(RoundTrip(power_cdf, power_invcdf, <<x>> \o par))

\* Parameter vectors of one or two elements.
ShortVecs(D) == UNION {[1..L -> D] : L \in 1..2}

RoundKumarXDom == {Num(1, 4), Half, Num(3, 4), Num(2, 1)}
RoundKumarPar == ShortVecs({Zero, Half, Num(2, 1)}) \X ShortVecs({Half, One, Num(3, 1)})
RoundRayleighXDom == {Num(-1, 1), Half, One, Num(2, 1), Num(3, 1)}
RoundRayleighPar == {<<s>> : s \in ShortVecs({Zero, Half, One, Num(2, 1)})}
RoundPowerXDom == {Zero, Num(1, 4), Half, One, Num(3, 1)}
RoundPowerPar == ShortVecs({One, Num(2, 1)}) \X ShortVecs({One, Num(2, 1), Num(3, 1)})

InitRound ==
  /\ n = 0 /\ lower_tail = TRUE /\ log_prob = FALSE /\ Fresh
  /\ \/ fn = "kumar" /\ x \in Vecs(RoundKumarXDom) /\ par \in RoundKumarPar
     \/ fn = "rayleigh" /\ x \in Vecs(RoundRayleighXDom) /\ par \in RoundRayleighPar
     \/ fn = "power" /\ x \in Vecs(RoundPowerXDom) /\ par \in RoundPowerPar

NextRound == RoundTrip_kumar \/ RoundTrip_rayleigh \/ RoundTrip_power

SpecRound == InitRound /\ [][NextRound]_vars

\* Element i (from 0) is a query inside the support with valid parameters.
RoundInside(i) ==
  LET xi == Recycled(x, i)
  IN  CASE fn = "kumar" ->
             /\ Lt(Zero, xi) /\ Lt(xi, One)
             /\ Gt(ParAt(1, i), Zero) /\ Gt(ParAt(2, i), Zero)
        [] fn = "rayleigh" -> Gt(xi, Zero) /\ Gt(ParAt(1, i), Zero)
        [] fn = "power" ->
             /\ Lt(Zero, xi) /\ Lt(xi, ParAt(1, i))
             /\ Gt(ParAt(1, i), Zero) /\ Gt(ParAt(2, i), Zero)

C19_Outside ==
  (pc = "done" /\ fn = "rayleigh") =>
    \A i \in 0..(Len(out) - 1) :
      (Lt(Recycled(x, i), Zero) /\ Gt(ParAt(1, i), Zero)) => out[i+1] = Zero

\* ---------------------------------------------------------------------
\* The gamma-Poisson table of cumulative probabilities.
\* ---------------------------------------------------------------------
TabXDom == {NA_REAL, Num(-1, 1), One, Num(2, 1), Num(5, 2), R_PosInf}
TabPar == ShortVecs({Zero, One, Num(2, 1)}) \X ShortVecs({Half, One})

InitTab ==
  /\ fn = "cpp_pgpois" /\ x \in Vecs(TabXDom) /\ par \in TabPar /\ n = 0
  /\ lower_tail = TRUE /\ log_prob = FALSE /\ Fresh

NextTab == Call_pgpois

SpecTab == InitTab /\ [][NextTab]_vars

\* The table the call builds for the parameters of element i.
TabOf(i) == cdf_gpois_table(finite_max(x), ParAt(1, i), ParAt(2, i))

TabValid(i) == Gt(ParAt(1, i), Zero) /\ Gt(ParAt(2, i), Zero)

\* Elements i and h are computed with the same elements of alpha and beta.
SamePair(i, h) ==
  /\ i % Len(par[1]) = h % Len(par[1])
  /\ i % Len(par[2]) = h % Len(par[2])

\* C20: for alpha > 0 and beta > 0 entry j of the table of cdf_gpois_table
\* is entry j-1 plus a non-negative term for 1 <= j <= floor(x), so the table
\* is non-decreasing; and within a cpp_pgpois call the outputs for one
\* parameter pair are non-decreasing in the query x.
C20_TableMonotone ==
  (pc = "done" /\ fn = "cpp_pgpois" /\ lower_tail /\ ~log_prob) =>
    \A i \in 0..(Len(out) - 1) : TabValid(i) =>
      /\ Len(TabOf(i)) = ToInt(finite_max(x)) + 1
      /\ \A j \in 1..ToInt(finite_max(x)) :
           /\ Ge(Sub(TabAt(TabOf(i), j), TabAt(TabOf(i), j - 1)), Zero)
           /\ Le(TabAt(TabOf(i), j - 1), TabAt(TabOf(i), j))
      /\ \A h \in 0..(Len(out) - 1) :
           (SamePair(i, h) /\ Le(Recycled(x, i), Recycled(x, h))) =>
             Le(out[i+1], out[h+1])

C20_Witness ==
  /\ pc = "done" /\ fn = "cpp_pgpois" /\ lower_tail /\ ~log_prob
  /\ x = <<Num(2, 1), One>> /\ par = << <<One>>, <<One>> >>
  /\ out = <<Num(7, 8), Num(3, 4)>>

(***************************************************************************)
(* cpp_pgpois element by element: the memo of tables, the polls for a user *)
(* interrupt, and one call after another.                                  *)
(***************************************************************************)
\* The loop polls when i % 1000 == 0.
PollEvery == 1000

\* The poll skipping the first element.
Mut_PollDue(i) == i % PollEvery = 0 /\ i > 0

PollDue(i) == i % PollEvery = 0

PgpoisN == MaxOf(<<Len(x), Len(par[1]), Len(par[2])>>)

\* The memo's key for element i reading beta's index only.
Mut_PgpoisKey(i) == <<0, i % Len(par[2])>>

\* The memo's key for element i (from 0).
PgpoisKey(i) == <<i % Len(par[1]), i % Len(par[2])>>

\* The bound of the tables taken from the first query.
Mut_PgpoisMx == IF R_FINITE(x[1]) /\ Gt(x[1], Zero) THEN x[1] ELSE Zero

\* mx, the bound of the tables of the call.
PgpoisMx == finite_max(x)

\* The declarations before the loop: p(Nmax), an empty memo.
Enter_pgpois ==
  /\ fn = "cpp_pgpois" /\ pc = "call"
  /\ pc' = "head" /\ idx' = 0 /\ memo' = <<>>
  /\ acc' = [j \in 1..PgpoisN |-> Zero]
  /\ since' = 0 /\ built' = <<>> /\ last' = <<>>
  /\ UNCHANGED <<fn, x, par, n, lower_tail, log_prob, draws, out, warnings, oob,
                 interrupt>>

\* Rcpp::checkUserInterrupt() at the head of the loop: with an interrupt
\* pending it throws and the call returns nothing.
Poll_pgpois ==
  /\ fn = "cpp_pgpois" /\ pc = "head" /\ idx < PgpoisN /\ PollDue(idx)
  /\ IF interrupt THEN pc' = "interrupted" /\ since' = since
                  ELSE pc' = "elem" /\ since' = 0
  /\ UNCHANGED <<fn, x, par, n, lower_tail, log_prob, draws, out, warnings, oob,
                 idx, memo, acc, interrupt, built, last>>

\* The body of the loop for element idx.
Elem_pgpois ==
  /\ fn = "cpp_pgpois"
  /\ \/ pc = "elem"
     \/ pc = "head" /\ idx < PgpoisN /\ ~PollDue(idx)
  /\ LET xi  == Recycled(x, idx)
         ai  == Recycled(par[1], idx)
         bi  == Recycled(par[2], idx)
         key == PgpoisKey(idx)
         hit == key \in DOMAIN memo
         tab == IF hit THEN memo[key] ELSE cdf_gpois_table(PgpoisMx, ai, bi)
         j   == ToInt(xi)
     IN  IF ISNAN(xi) \/ ISNAN(ai) \/ ISNAN(bi)
         THEN /\ acc' = [acc EXCEPT ![idx + 1] = NA_REAL]
              /\ UNCHANGED <<warnings, memo, built, last, oob>>
         ELSE IF Le(ai, Zero) \/ Le(bi, Zero)
         THEN /\ acc' = [acc EXCEPT ![idx + 1] = NAN]
              /\ warnings' = warnings + 1
              /\ UNCHANGED <<memo, built, last, oob>>
         ELSE IF Lt(xi, Zero)
         THEN /\ acc' = [acc EXCEPT ![idx + 1] = Zero]
              /\ UNCHANGED <<warnings, memo, built, last, oob>>
         ELSE IF xi = R_PosInf
         THEN /\ acc' = [acc EXCEPT ![idx + 1] = One]
              /\ UNCHANGED <<warnings, memo, built, last, oob>>
         ELSE /\ memo' = IF hit THEN memo ELSE memo @@ (key :> tab)
              /\ built' = IF hit THEN built ELSE Append(built, key)
              /\ last' = <<j, Len(tab)>>
              /\ IF j < Len(tab)
                 THEN acc' = [acc EXCEPT ![idx + 1] = TabAt(tab, j)] /\ oob' = oob
                 ELSE \E junk \in JunkDom :
                        acc' = [acc EXCEPT ![idx + 1] = junk] /\ oob' = TRUE
              /\ warnings' = warnings
  /\ idx' = idx + 1 /\ since' = since + 1 /\ pc' = "head"
  /\ UNCHANGED <<fn, x, par, n, lower_tail, log_prob, draws, out, interrupt>>

\* After the loop: the upper tail, the logarithm, the return.
Finish_pgpois ==
  /\ fn = "cpp_pgpois" /\ pc = "head" /\ idx = PgpoisN
  /\ LET p1 == IF ~lower_tail THEN Map1(OneMinus, acc) ELSE acc
     IN  out' = IF log_prob THEN Map1(Log, p1) ELSE p1
  /\ pc' = "done"
  /\ UNCHANGED <<fn, x, par, n, lower_tail, log_prob, draws, warnings, oob>>
  /\ UNCHANGED loopvars

\* The user interrupts while the call runs.
Signal ==
  /\ pc \in {"call", "head", "elem"} /\ ~interrupt
  /\ interrupt' = TRUE
  /\ UNCHANGED <<fn, x, par, n, lower_tail, log_prob, draws, out, warnings, oob,
                 pc, idx, memo, acc, since, built, last>>

\* Longest batch of queries: past the second poll.
MaxBatch == 1001

LoopBatches ==
  { <<One>>, <<Num(5, 2), One>>, <<NA_REAL, R_PosInf>>,
    <<NA_REAL, Num(-1, 1), Num(5, 2)>>,
    <<R_PosInf, R_NegInf, One, Num(2, 1)>>,
    <<One, Num(2, 1), One, Num(2, 1)>>,
    [j \in 1..MaxBatch |-> IF j % 2 = 1 THEN One ELSE Num(2, 1)] }

LoopPar ==
  { << <<One>>, <<One>> >>, << <<One, Num(2, 1)>>, <<One>> >>,
    << <<One>>, <<One, Half>> >>, << <<Zero, One>>, <<One, Half>> >>,
    << <<One, Num(2, 1), One>>, <<One, Half>> >> }

\* The arguments of a call; the longest batch with two values of alpha.
LoopArgs(xs, ps) ==
  /\ xs \in LoopBatches /\ ps \in LoopPar
  /\ Len(xs) = MaxBatch => ps = << <<One, Num(2, 1)>>, <<One>> >>

\* The next call of the session, after this one returned or was interrupted.
Again ==
  /\ fn = "cpp_pgpois" /\ pc \in {"done", "interrupted"}
  /\ \E xs \in LoopBatches, ps \in LoopPar :
       LoopArgs(xs, ps) /\ x' = xs /\ par' = ps
  /\ pc' = "call" /\ out' = <<>> /\ warnings' = 0 /\ oob' = FALSE
  /\ interrupt' = FALSE /\ idx' = 0 /\ acc' = <<>> /\ since' = 0
  /\ built' = <<>> /\ last' = <<>>
  /\ UNCHANGED <<fn, n, lower_tail, log_prob, draws, memo>>

InitLoop ==
  /\ fn = "cpp_pgpois" /\ LoopArgs(x, par) /\ n = 0
  /\ lower_tail \in BOOLEAN /\ log_prob = FALSE /\ Fresh

NextLoop ==
  \/ Enter_pgpois \/ Poll_pgpois \/ Elem_pgpois \/ Finish_pgpois
  \/ Signal \/ Again

SpecLoop == InitLoop /\ [][NextLoop]_vars

\* The call run element by element returns what cpp_pgpois returns.
LoopAgrees ==
  (pc = "done" /\ Len(x) < MaxBatch) =>
    LET r == cpp_pgpois(x, par[1], par[2], lower_tail, log_prob)
    IN  out = r.out /\ warnings = r.warnings /\ oob = r.oob

PollBound ==
  /\ (pc \in {"head", "elem", "interrupted", "done"}) => since <= PollEvery
  /\ (pc = "interrupted") => out = <<>>

\* Element idx, a multiple of 1000, is processed right after a poll.
PolledFirst ==
  (idx' = idx + 1 /\ idx % PollEvery = 0) => (pc = "elem" /\ since = 0)

\* A poll that finds an interrupt pending ends the call.
AbortAtPoll ==
  (pc = "head" /\ idx < PgpoisN /\ idx % PollEvery = 0 /\ interrupt /\ pc' # pc)
    => (pc' = "interrupted" /\ out' = <<>>)

\* C21: cpp_pgpois polls for an interrupt before processing element i for
\* every i that is a multiple of 1000 (i = 0 included), so at most 1000
\* elements are processed between two polls; a poll that finds an interrupt
\* pending aborts the call, and an aborted call returns no vector.
C21_Polling ==
  /\ []PollBound
  /\ [][PolledFirst]_vars
  /\ [][AbortAtPoll]_vars

\* The call interrupted at its second poll, after 1000 elements.
C21_Witness ==
  pc = "interrupted" /\ idx = PollEvery /\ since = PollEvery /\ out = <<>>

\* The index pair of element i, and whether the element reads a table.
PairOf(i) == <<i % Len(par[1]), i % Len(par[2])>>

TableBranch(i) ==
  LET xi == Recycled(x, i)
      ai == Recycled(par[1], i)
      bi == Recycled(par[2], i)
  IN  /\ ~ISNAN(xi) /\ ~ISNAN(ai) /\ ~ISNAN(bi)
      /\ Gt(ai, Zero) /\ Gt(bi, Zero)
      /\ ~Lt(xi, Zero) /\ xi # R_PosInf

\* The table of pair k built up to mx.
PairTable(k, mx) == cdf_gpois_table(mx, par[1][k[1] + 1], par[2][k[2] + 1])

MemoState ==
  /\ (pc = "head" /\ idx = 0) => (memo = <<>> /\ built = <<>>)
  /\ (pc \in {"head", "elem", "done", "interrupted"}) =>
       /\ \A a, b \in 1..Len(built) : built[a] = built[b] => a = b
       /\ DOMAIN memo = {built[a] : a \in 1..Len(built)}
       /\ LET mx == finite_max(x)
          IN  \A k \in DOMAIN memo :
                memo[k] = PairTable(k, mx) /\ Len(memo[k]) = ToInt(mx) + 1

MemoStep ==
  (idx' = idx + 1 /\ TableBranch(idx)) =>
    IF PairOf(idx) \in DOMAIN memo
    THEN /\ memo' = memo /\ built' = built
         /\ acc'[idx + 1] = memo[PairOf(idx)][ToInt(Recycled(x, idx)) + 1]
    ELSE /\ built' = Append(built, PairOf(idx))
         /\ acc'[idx + 1] =
              PairTable(PairOf(idx), finite_max(x))[ToInt(Recycled(x, idx)) + 1]

\* C22: within a cpp_pgpois call cdf_gpois_table is called at most once for
\* each pair (i mod length(alpha), i mod length(beta)) that reaches the table
\* branch, a later element of the pair reads the table stored for it, every
\* table covers 0..floor(mx),
\* the largest finite query of the batch being mx, and the memo is empty
\* when a call starts.
C22_Memo == []MemoState /\ [][MemoStep]_vars

\* Four queries over two pairs: two tables built, each read twice; in a call
\* that follows another one.
C22_Witness ==
  /\ pc = "done" /\ x = <<One, Num(2, 1), One, Num(2, 1)>>
  /\ par = << <<One, Num(2, 1)>>, <<One>> >>
  /\ built = << <<0, 0>>, <<1, 0>> >>
  /\ lower_tail /\ out = <<Num(3, 4), Num(11, 16), Num(3, 4), Num(11, 16)>>

\* C24: in cpp_pgpois, whatever negative, non-integer, infinite and missing
\* queries the batch mixes with finite non-negative ones, a table is read at
\* an index trunc(x_i) with 0 <= trunc(x_i) <= floor(mx), inside the table
\* of length floor(mx) + 1 built from the batch maximum mx, and a table is
\* built only when some query is finite and non-negative.
C24_TableBounds ==
  (pc \in {"head", "elem", "done", "interrupted"}) =>
    /\ ~oob
    /\ (last # <<>>) =>
         LET mx == finite_max(x)
         IN  /\ 0 <= last[1] /\ last[1] <= ToInt(mx)
             /\ last[2] = ToInt(mx) + 1
    /\ (built # <<>>) =>
         \E h \in 1..Len(x) : R_FINITE(x[h]) /\ Ge(x[h], Zero)

\* A batch of +Inf, -Inf, 1 and 2: the last read is of entry 2 of 3.
C24_Witness ==
  /\ pc = "done" /\ x = <<R_PosInf, R_NegInf, One, Num(2, 1)>>
  /\ last = <<2, 3>> /\ ~oob /\ Len(built) = 1

\* ---------------------------------------------------------------------
\* The categorical quantile and random variate: the downward scan.
\* ---------------------------------------------------------------------
ScanPDom == {NA_REAL, Zero, Num(1, 4), Half, One}

\* cpp_qcat calls in which prob has no more rows than p has elements, and
\* cpp_rcat calls.
InitScan ==
  \/ /\ InitQ("cpp_qcat", ScanPDom, {NA_REAL, Log(Half), Zero}, CatPar)
     /\ Len(par[1]) <= Len(x)
  \/ InitR("cpp_rcat", CatPar)

NextScan == Call_qcat \/ Call_rcat

SpecScan == InitScan /\ [][NextScan]_vars

\* The cumulative probability of categories 1..c of the row of element i.
ScanCum(i, c) == PcatMass(i, c)

\* The smallest category whose cumulative probability reaches pv.
ScanQuantile(i, pv) ==
  CHOOSE c \in 1..Len(PcatRow(i)) :
    /\ Ge(ScanCum(i, c), pv)
    /\ \A b \in 1..(c - 1) : Lt(ScanCum(i, b), pv)

\* The first category from k downward whose lower mass is below pv.
ScanFirstBelow(i, pv) ==
  CHOOSE c \in 1..Len(PcatRow(i)) :
    /\ Lt(ScanCum(i, c - 1), pv)
    /\ \A b \in (c + 1)..Len(PcatRow(i)) : ~Lt(ScanCum(i, b - 1), pv)

\* The probability element i of the call stands for: the target of a cpp_qcat
\* call, the draw of a cpp_rcat call.
ScanTarget(i) == IF fn = "cpp_qcat" THEN PreQ(Recycled(x, i)) ELSE draws[i + 1]

\* C23: for a target 0 < p <= 1 and a valid row of k categories cpp_qcat
\* returns an index in 1..k: the first category from k downward whose lower
\* mass is strictly below p, which is the smallest category whose cumulative
\* probability is >= p; cpp_rcat returns the same for its draw u, the
\* category cpp_qcat's loop body returns for p = u.
C23_Scan ==
  (pc = "done" /\ fn \in {"cpp_qcat", "cpp_rcat"}) =>
    \A i \in 0..(Len(out) - 1) :
      LET pv == ScanTarget(i)
      IN  (Lt(Zero, pv) /\ Le(pv, One) /\ PcatRowValid(i)) =>
            /\ out[i+1] \in {Num(c, 1) : c \in 1..Len(PcatRow(i))}
            /\ out[i+1] = Num(ScanFirstBelow(i, pv), 1)
            /\ out[i+1] = Num(ScanQuantile(i, pv), 1)
            /\ (fn = "cpp_rcat") =>
                 out[i+1] = qcat_elem(pv, Recycled(normalize_prob(par[1]), i).v,
                                      Len(PcatRow(i))).v

\* The target on the boundary between two categories, and a draw on one.
C23_Witness ==
  /\ pc = "done" /\ fn = "cpp_rcat" /\ n = 2
  /\ par[1] = << <<Num(1, 4), Num(1, 4), Half>> >>
  /\ draws = <<Num(1, 4), Num(3, 4)>> /\ out = <<One, Num(3, 1)>>

C23_WitnessQ ==
  /\ pc = "done" /\ fn = "cpp_qcat" /\ lower_tail /\ ~log_prob
  /\ par[1] = << <<Half, Zero, Half>> >>
  /\ x = <<Half, One>> /\ out = <<One, Num(3, 1)>>

\* The probability invcdf_zib hands to the binomial quantile for element i.
ZibRescaled(i) == Div(Sub(QzibTarget(i), ParAt(3, i)), Sub(One, ParAt(3, i)))

\* Element i reaches the binomial quantile with pp and pi in [0, 1].
ZibQuantileCalled(i) ==
  /\ ~ISNAN(QzibTarget(i)) /\ VALID_PROB(QzibTarget(i))
  /\ ~ISNAN(ParAt(3, i)) /\ VALID_PROB(ParAt(3, i))
  /\ ~ISNAN(ParAt(1, i)) /\ ~ISNAN(ParAt(2, i))
  /\ ~Lt(QzibTarget(i), ParAt(3, i))

\* C25: whenever invcdf_zib calls the binomial quantile, for pp and pi in
\* [0, 1] (pi = 1 included), the rescaled probability (pp - pi)/(1 - pi) is
\* a number in [0, 1], and so is not the reason for a NaN result.
C25_RescaledInUnit ==
  (pc = "done" /\ fn = "cpp_qzib") =>
    \A i \in 0..(Len(out) - 1) : ZibQuantileCalled(i) =>
      /\ ~ISNAN(ZibRescaled(i)) /\ VALID_PROB(ZibRescaled(i))
      /\ ~ISNAN(out[i+1])

\* The same with pi below 1.
C25_BelowOne ==
  (pc = "done" /\ fn = "cpp_qzib") =>
    \A i \in 0..(Len(out) - 1) :
      (ZibQuantileCalled(i) /\ Lt(ParAt(3, i), One)) =>
        /\ ~ISNAN(ZibRescaled(i)) /\ VALID_PROB(ZibRescaled(i))
        /\ ~ISNAN(out[i+1])

====
